---- MODULE Spec2Model ----
(***************************************************************************)
(* The exams HTTP service (express + mongoose) as a state machine.         *)
(* The modelled variant is the one that carries every route, including     *)
(* add-question and remove-question (src/unnamed/part_001).                *)
(*                                                                         *)
(* State: the "exams" collection, the id generator of the store, the       *)
(* handlers that are suspended on a store call, the answer that was sent   *)
(* last, and what has been answered: how many add-question and             *)
(* remove-question requests were answered 200, the questions of the former *)
(* in the order of the answers, and whether the store has rejected a call. *)
(***************************************************************************)
EXTENDS Integers, Sequences, FiniteSets, TLC

VARIABLES store, nextId, pending, last, answered

vars == <<store, nextId, pending, last, answered>>

(***************************************************************************)
(* Bounds of the model.                                                    *)
(***************************************************************************)
\* documents ever inserted
MaxDocs == 2
\* questions in one stored exam (caps add-question)
MaxQuestions == 3
\* value of the version key __v (caps remove-question write-backs)
MaxVersion == 2

(***************************************************************************)
(* Strings.  A JavaScript string is the sequence of its UTF-16 code units, *)
(* each a number of 0..65535.  Text(s) is the string of a text of the      *)
(* characters U+0020 to U+007E but U+0060, written between quotes, and     *)
(* Chr(c) the code unit of one of them.                                    *)
(***************************************************************************)
CodeUnits ==
  " " :> 32 @@ "!" :> 33 @@ "\"" :> 34 @@ "#" :> 35 @@ "$" :> 36 @@
    "%" :> 37 @@ "&" :> 38 @@ "'" :> 39 @@ "(" :> 40 @@ ")" :> 41 @@
    "*" :> 42 @@ "+" :> 43 @@ "," :> 44 @@ "-" :> 45 @@ "." :> 46 @@
    "/" :> 47 @@ "0" :> 48 @@ "1" :> 49 @@ "2" :> 50 @@ "3" :> 51 @@
    "4" :> 52 @@ "5" :> 53 @@ "6" :> 54 @@ "7" :> 55 @@ "8" :> 56 @@
    "9" :> 57 @@ ":" :> 58 @@ ";" :> 59 @@ "<" :> 60 @@ "=" :> 61 @@
    ">" :> 62 @@ "?" :> 63 @@ "@" :> 64 @@ "A" :> 65 @@ "B" :> 66 @@
    "C" :> 67 @@ "D" :> 68 @@ "E" :> 69 @@ "F" :> 70 @@ "G" :> 71 @@
    "H" :> 72 @@ "I" :> 73 @@ "J" :> 74 @@ "K" :> 75 @@ "L" :> 76 @@
    "M" :> 77 @@ "N" :> 78 @@ "O" :> 79 @@ "P" :> 80 @@ "Q" :> 81 @@
    "R" :> 82 @@ "S" :> 83 @@ "T" :> 84 @@ "U" :> 85 @@ "V" :> 86 @@
    "W" :> 87 @@ "X" :> 88 @@ "Y" :> 89 @@ "Z" :> 90 @@ "[" :> 91 @@
    "\\" :> 92 @@ "]" :> 93 @@ "^" :> 94 @@ "_" :> 95 @@ "a" :> 97 @@
    "b" :> 98 @@ "c" :> 99 @@ "d" :> 100 @@ "e" :> 101 @@ "f" :> 102 @@
    "g" :> 103 @@ "h" :> 104 @@ "i" :> 105 @@ "j" :> 106 @@ "k" :> 107 @@
    "l" :> 108 @@ "m" :> 109 @@ "n" :> 110 @@ "o" :> 111 @@ "p" :> 112 @@
    "q" :> 113 @@ "r" :> 114 @@ "s" :> 115 @@ "t" :> 116 @@ "u" :> 117 @@
    "v" :> 118 @@ "w" :> 119 @@ "x" :> 120 @@ "y" :> 121 @@ "z" :> 122 @@
    "{" :> 123 @@ "|" :> 124 @@ "}" :> 125 @@ "~" :> 126

Chr(c) == CodeUnits[c]

Text(s) == [i \in 1..Len(s) |-> CodeUnits[SubSeq(s, i, i)]]

\* WhiteSpace and LineTerminator of StrWhiteSpaceChar: tab, line feed,
\* vertical tab, form feed, carriage return, space, no-break space, ogham
\* space mark, en quad to hair space, line and paragraph separator, narrow
\* no-break space, medium mathematical space, ideographic space and byte
\* order mark
StrWhiteSpace ==
  {9, 10, 11, 12, 13, 32, 160, 5760, 8232, 8233, 8239, 8287, 12288, 65279}
    \cup (8192..8202)
(***************************************************************************)
(* JavaScript values of a request body or of a parsed JSON text.  A number *)
(* is kept as twice its value when that is an integer (Num), so that       *)
(* halves (0.5, 1.5) are representable, and as a Number otherwise          *)
(* (Double).  An object keeps its keys and values in the order of its own  *)
(* property keys, and a string is the sequence of its code units.          *)
(***************************************************************************)
Undef == [t |-> "undefined"]
Null == [t |-> "null"]
Str(s) == [t |-> "string", s |-> s]
Num(twice) == [t |-> "number", twice |-> twice]
Arr(a) == [t |-> "array", a |-> a]
Bool(b) == [t |-> "boolean", b |-> b]
Double(n) == [t |-> "double", n |-> n]
Obj(keys, vals) == [t |-> "object", keys |-> keys, vals |-> vals]

\* JavaScript ToBoolean, as used by the `!field` presence checks.
Truthy(v) ==
  CASE v.t = "undefined" -> FALSE
    [] v.t = "null" -> FALSE
    [] v.t = "string" -> v.s # <<>>
    [] v.t = "number" -> v.twice # 0
    [] v.t = "double" -> ~v.n.nan /\ (v.n.inf # 0 \/ v.n.m # 0)
    [] v.t = "boolean" -> v.b
    [] v.t \in {"array", "object"} -> TRUE

(***************************************************************************)
(* JavaScript Number values as far as `index < 0`, `index >= length` and   *)
(* splice(index, 1) look at them: NaN, +Infinity, -Infinity, or the finite *)
(* value m * 10^e.  Mantissas have at most nine significant digits.        *)
(***************************************************************************)
NaN == [nan |-> TRUE, inf |-> 0, m |-> 0, e |-> 0]
Infinity(sign) == [nan |-> FALSE, inf |-> sign, m |-> 0, e |-> 0]
Number(m, e) == [nan |-> FALSE, inf |-> 0, m |-> m, e |-> e]

Max(a, b) == IF a >= b THEN a ELSE b
Min(a, b) == IF a <= b THEN a ELSE b
Abs(a) == IF a >= 0 THEN a ELSE -a

\* the element of a set of one element; in {F(x) : x \in {e}} the value of e
\* is computed once, however often F looks at x
The(S) == CHOOSE v \in S : TRUE

\* the largest integer of the model's arithmetic
MaxInt == 2147483647

RECURSIVE Pow10(_)
Pow10(k) == IF k = 0 THEN 1 ELSE 10 * Pow10(k - 1)

RECURSIVE NumDigits(_)
NumDigits(m) == IF m < 10 THEN 1 ELSE 1 + NumDigits(m \div 10)

(***************************************************************************)
(* Doubles below 2^-1022 (2.2250738585072014e-308) are the multiples of    *)
(* 2^-1074 (4.94e-324).  A value m * 10^e there is m * 2^1074 / 10^-e of   *)
(* them, and the k-th of them is k * 5^1074 / 10^1074: both are read off   *)
(* the decimal digits of a product that is computed in full, on numbers    *)
(* kept as their digits in base 10^4, the lowest first.                    *)
(***************************************************************************)
Base == 10000

Limb(a, i) == IF i \in 1..Len(a) THEN a[i] ELSE 0

\* the digits i..j of a * (hi * Base + lo) and what they carry on, carry
\* being what the digits below them gave (hi <= 10^5, lo < Base)
RECURSIVE TimesPart(_, _, _, _, _, _)
TimesPart(a, hi, lo, i, j, carry) ==
  The({IF i = j
         THEN The({<<<<v % Base>>, v \div Base>> :
                     v \in {Limb(x, i) * l + Limb(x, i - 1) * h + c}})
       ELSE The({The({<<low[1] \o high[1], high[2]>> :
                        high \in {TimesPart(x, h, l, mid + 1, j, low[2])}}) :
                   low \in {TimesPart(x, h, l, i, mid, c)}}) :
         x \in {a}, h \in {hi}, l \in {lo}, c \in {carry}, mid \in {(i + j) \div 2}})

\* a without the zeros at its top
Normal(a) ==
  The({SubSeq(x, 1, CHOOSE n \in 0..Len(x) :
                      /\ n = 0 \/ x[n] # 0
                      /\ \A k \in (n + 1)..Len(x) : x[k] = 0) :
         x \in {a}})

\* a * (hi * Base + lo)
Times(a, hi, lo) == Normal(TimesPart(a, hi, lo, 1, Len(a) + 3, 0)[1])

\* 2^1074, of 324 decimal digits
TwoTo1074 ==
  <<4784, 9349, 7410, 7707, 6330, 62, 8646, 2750, 1863, 2532, 3050, 6152,
    3414, 5233, 7695, 2358, 5651, 8100, 6340, 5955, 6491, 3355, 1810, 6986,
    4692, 8342, 74, 8562, 4506, 4727, 7678, 3976, 3412, 3216, 4209, 9077,
    4466, 6136, 5663, 4276, 1742, 9215, 8509, 4073, 3999, 7013, 7686, 7934,
    7385, 873, 3898, 1911, 1681, 8643, 7077, 9518, 1244, 1437, 8370, 9603,
    6891, 9534, 5679, 339, 2743, 3580, 6901, 1835, 1421, 9764, 5664, 495,
    7307, 1891, 3467, 2495, 1835, 3106, 3307, 225, 2024>>

\* 5^1074, of 751 decimal digits
FiveTo1074 ==
  <<5625, 4726, 5334, 8265, 1971, 5064, 8682, 8753, 2290, 4565, 6754, 2427,
    279, 3709, 7026, 4205, 4116, 8099, 3664, 9899, 7335, 7389, 5583, 2509,
    8167, 6273, 378, 1451, 9110, 5048, 9131, 5119, 6605, 5125, 1758, 6777,
    7972, 4701, 5336, 9699, 3446, 2037, 4778, 5608, 8746, 7247, 7592, 7763,
    4730, 8252, 9049, 9247, 1832, 2773, 8342, 5307, 8097, 6169, 1150, 1060,
    8060, 5836, 8934, 2382, 3609, 4319, 832, 3572, 7533, 6844, 3222, 7033,
    7491, 710, 2681, 3790, 2019, 9347, 5264, 4803, 5013, 6115, 5238, 5935,
    7801, 4726, 6901, 1478, 4757, 2452, 5633, 416, 908, 9894, 1931, 9954,
    7099, 129, 2748, 4011, 6544, 545, 3293, 2455, 9149, 2715, 1945, 2493,
    3106, 9560, 8703, 7681, 6686, 5855, 266, 1171, 6559, 2385, 4126, 9807,
    3853, 1715, 4003, 6151, 3169, 9727, 4733, 7312, 8438, 5649, 9153, 8740,
    63, 3050, 3072, 9987, 6056, 1863, 6887, 2103, 4898, 1678, 5817, 2784,
    4045, 311, 1319, 3007, 8126, 8187, 107, 4796, 9877, 7963, 5939, 1035,
    6567, 926, 1773, 4457, 4695, 9656, 3797, 5992, 6163, 8363, 5299, 5186,
    2087, 7270, 7550, 5006, 5682, 2558, 7644, 4324, 261, 598, 2365, 2137,
    8682, 8792, 7656, 5441, 1246, 4584, 656, 494>>

\* the decimal digit of a at 10^j, and the number of decimal digits of a
DigitAt(a, j) == (Limb(a, j \div 4 + 1) \div Pow10(j % 4)) % 10
DigitCount(a) == 4 * (Len(a) - 1) + NumDigits(a[Len(a)])

\* the value of the n decimal digits of a from 10^j up
RECURSIVE DigitsFrom(_, _, _)
DigitsFrom(a, j, n) ==
  The({IF k <= 0 THEN 0 ELSE 10 * DigitsFrom(x, i + 1, k - 1) + DigitAt(x, i) :
         x \in {a}, i \in {j}, k \in {n}})

\* a / 10^s rounded to the nearest integer, to the even one of two that
\* are as near, given the integer part
RoundUp(a, s, int) ==
  \/ DigitAt(a, s - 1) > 5
  \/ /\ DigitAt(a, s - 1) = 5
     /\ (int % 2 = 1 \/ \E j \in 0..(s - 2) : DigitAt(a, j) # 0)
Nearest(a, s, int) == IF s > 0 /\ RoundUp(a, s, int) THEN int + 1 ELSE int
Rounded(a, s) ==
  The({The({Nearest(x, from, int) :
              int \in {DigitsFrom(x, from, DigitCount(x) - from)}}) :
         x \in {a}, from \in {s}})

\* the multiple of 2^-1074 nearest to m * 10^e, for m * 10^e < 10^-315
Multiple(m, e) ==
  The({Rounded(p, -e) : p \in {Times(TwoTo1074, m \div Base, m % Base)}})

\* k * 2^-1074 in n significant digits: the digits and their exponent,
\* given the digits x of k * 5^1074
InDigits(x, n) ==
  The({<<Rounded(x, s), s - 1074>> : s \in {DigitCount(x) - n}})

\* the fewest digits that read back as k * 2^-1074, the nearest of them
RECURSIVE ShortestOf(_, _, _)
ShortestOf(x, k, n) ==
  The({IF n >= 9 \/ Multiple(d[1], d[2]) = k THEN d ELSE ShortestOf(x, k, i + 1) :
         d \in {InDigits(x, n)}, i \in {n}})

\* the k-th multiple of 2^-1074 with a sign, as a Number
Subnormal(sign, k) ==
  IF k = 0 THEN Number(0, 0)
  ELSE The({The({Number(sign * d[1], d[2]) : d \in {ShortestOf(x, k, 1)}}) :
              x \in {Times(FiveTo1074, k \div Base, k % Base)}})

\* The double nearest to sign * m * 10^e (m >= 0): beyond the largest double
\* (1.7976931348623157e308) it is an infinity, from 10^-315 on it is read
\* back in the digits of m, below that it is a multiple of 2^-1074, zero
\* below half of 2^-1074.  The value is compared by the exponent of its
\* first digit and its first nine digits.
ToDouble(sign, m, e) ==
  IF m = 0 THEN Number(0, 0)
  ELSE IF \/ e + NumDigits(m) - 1 > 308
          \/ /\ e + NumDigits(m) - 1 = 308
             /\ m * Pow10(9 - NumDigits(m)) >= 179769314
    THEN Infinity(sign)
  ELSE IF e + NumDigits(m) - 1 < -324 THEN Number(0, 0)
  ELSE IF e + NumDigits(m) - 1 < -315
    THEN The({Subnormal(sign, k) : k \in {Multiple(m, e)}})
  ELSE Number(sign * m, e)

Digits == Chr("0")..Chr("9")
HexDigits == Digits \cup (Chr("a")..Chr("f")) \cup (Chr("A")..Chr("F"))

\* the code units of s at positions a..b that exist
Slice(s, a, b) ==
  IF Max(a, 1) > Min(b, Len(s)) THEN <<>> ELSE SubSeq(s, Max(a, 1), Min(b, Len(s)))

\* the code unit of s at position i, -1 when s has none there
Char(s, i) == IF 1 <= i /\ i <= Len(s) THEN s[i] ELSE -1

DigitValue(ch) ==
  CASE ch \in Digits -> ch - Chr("0")
    [] ch \in Chr("a")..Chr("f") -> 10 + ch - Chr("a")
    [] ch \in Chr("A")..Chr("F") -> 10 + ch - Chr("A")

AllIn(s, chars) == \A i \in 1..Len(s) : s[i] \in chars

\* the value of a string of digits in a radix
RECURSIVE DigitsToInt(_, _)
DigitsToInt(s, radix) ==
  IF s = <<>> THEN 0
  ELSE radix * The({DigitsToInt(t, radix) : t \in {Slice(s, 1, Len(s) - 1)}})
         + DigitValue(Char(s, Len(s)))

\* the position of the first code unit of s that is in chars, 0 if none
IndexOf(s, chars) ==
  The({IF at = {} THEN 0 ELSE CHOOSE i \in at : \A j \in at : i <= j :
         at \in {{i \in 1..Len(s) : s[i] \in chars}}})

\* the position of the last code unit of s that is in chars, 0 if none
LastIndexOf(s, chars) ==
  The({IF at = {} THEN 0 ELSE CHOOSE i \in at : \A j \in at : i >= j :
         at \in {{i \in 1..Len(s) : s[i] \in chars}}})

\* s without the white space it starts with, or ends with
TrimStart(s) ==
  The({IF at = {} THEN <<>>
       ELSE Slice(s, CHOOSE i \in at : \A j \in at : i <= j, Len(s)) :
         at \in {{i \in 1..Len(s) : s[i] \notin StrWhiteSpace}}})

TrimEnd(s) ==
  The({IF at = {} THEN <<>>
       ELSE Slice(s, 1, CHOOSE i \in at : \A j \in at : i >= j) :
         at \in {{i \in 1..Len(s) : s[i] \notin StrWhiteSpace}}})

\* a string without its leading sign, and the sign
Unsigned(s) ==
  IF Char(s, 1) \in {Chr("+"), Chr("-")} THEN Slice(s, 2, Len(s)) ELSE s
SignOf(s) == IF Char(s, 1) = Chr("-") THEN -1 ELSE 1

\* the part of s before the first code unit of chars (all of s if none),
\* and the part after it
Before(s, chars) ==
  IF IndexOf(s, chars) = 0 THEN s ELSE Slice(s, 1, IndexOf(s, chars) - 1)
After(s, chars) ==
  IF IndexOf(s, chars) = 0 THEN <<>> ELSE Slice(s, IndexOf(s, chars) + 1, Len(s))

\* digits [. [digits]] or . digits, given as the digits before and after the
\* point, then an exponent when there is one: an optional sign and digits
Scaled(sign, int, frac, hasExpo, expo) ==
  IF /\ int \o frac # <<>>
     /\ AllIn(int, Digits)
     /\ AllIn(frac, Digits)
     /\ hasExpo => (Unsigned(expo) # <<>> /\ AllIn(Unsigned(expo), Digits))
    THEN The({ToDouble(sign, m, SignOf(expo) * e - Len(frac)) :
                m \in {DigitsToInt(int \o frac, 10)},
                e \in {DigitsToInt(Unsigned(expo), 10)}})
  ELSE NaN

Mantissa(sign, mant, hasExpo, expo) ==
  The({Scaled(sign, int, frac, hasExpo, expo) :
         int \in {Before(mant, {Chr(".")})}, frac \in {After(mant, {Chr(".")})}})

\* StrUnsignedDecimalLiteral: digits [. [digits]] [exponent] or . digits
\* [exponent], with exponent e or E, an optional sign and digits.
DecimalLiteral(sign, u) ==
  The({Mantissa(sign, mant, IndexOf(u, {Chr("e"), Chr("E")}) # 0, expo) :
         mant \in {Before(u, {Chr("e"), Chr("E")})},
         expo \in {After(u, {Chr("e"), Chr("E")})}})

\* an integer literal of a radix, after its prefix
RadixLiteral(rest, digits, radix) ==
  IF rest # <<>> /\ AllIn(rest, digits)
    THEN Number(DigitsToInt(rest, radix), 0) ELSE NaN

\* StringNumericLiteral without the white space around it
NumericLiteral(t) ==
  IF t = <<>> THEN Number(0, 0)
  ELSE IF Unsigned(t) = Text("Infinity") THEN Infinity(SignOf(t))
  ELSE IF Slice(t, 1, 2) \in {Text("0x"), Text("0X")}
    THEN RadixLiteral(Slice(t, 3, Len(t)), HexDigits, 16)
  ELSE IF Slice(t, 1, 2) \in {Text("0o"), Text("0O")}
    THEN RadixLiteral(Slice(t, 3, Len(t)), Chr("0")..Chr("7"), 8)
  ELSE IF Slice(t, 1, 2) \in {Text("0b"), Text("0B")}
    THEN RadixLiteral(Slice(t, 3, Len(t)), {Chr("0"), Chr("1")}, 2)
  ELSE The({DecimalLiteral(SignOf(t), u) : u \in {Unsigned(t)}})

\* JavaScript StringToNumber (StringNumericLiteral): white space is trimmed,
\* the empty string is 0, then Infinity, a hexadecimal, octal or binary
\* integer without sign, or a signed decimal literal; anything else is NaN.
StringToNumber(s) ==
  The({The({NumericLiteral(t) : t \in {TrimEnd(u)}}) : u \in {TrimStart(s)}})

RECURSIVE StripZeros(_, _)
StripZeros(d, e) ==
  IF d # 0 /\ d % 10 = 0 THEN StripZeros(d \div 10, e + 1) ELSE <<d, e>>

RECURSIVE Zeros(_)
Zeros(k) == IF k <= 0 THEN <<>> ELSE <<Chr("0")>> \o Zeros(k - 1)

\* the digits ds, k of them, with the decimal point after the n-th
Notation(ds, k, n) ==
  IF k <= n /\ n <= 21 THEN ds \o Zeros(n - k)
  ELSE IF 0 < n /\ n <= 21 THEN Slice(ds, 1, n) \o Text(".") \o Slice(ds, n + 1, k)
  ELSE IF -6 < n /\ n <= 0 THEN Text("0.") \o Zeros(-n) \o ds
  ELSE Slice(ds, 1, 1) \o (IF k = 1 THEN <<>> ELSE Text(".") \o Slice(ds, 2, k))
         \o Text("e") \o (IF n - 1 < 0 THEN Text("-") ELSE Text("+"))
         \o Text(ToString(Abs(n - 1)))

\* the digits d of a value d * 10^e, d not a multiple of ten
Shortest(d, e) ==
  The({Notation(ds, Len(ds), Len(ds) + e) : ds \in {Text(ToString(d))}})

\* Number::toString(x) in radix 10
NumberText(x) ==
  IF x.nan THEN Text("NaN")
  ELSE IF x.inf # 0 THEN (IF x.inf < 0 THEN Text("-Infinity") ELSE Text("Infinity"))
  ELSE IF x.m = 0 THEN Text("0")
  ELSE (IF x.m < 0 THEN Text("-") ELSE <<>>)
         \o The({Shortest(z[1], z[2]) : z \in {StripZeros(Abs(x.m), x.e)}})

\* the Number of a number value of either form
NumberOf(v) == IF v.t = "number" THEN Number(5 * v.twice, -1) ELSE v.n

\* what an operation gives when it throws
Thrown(error) == [throws |-> error]

\* ToPrimitive of a value of a JSON body gives a primitive: an object does
\* not have a member "toString" of its own (no value of a body is callable,
\* and Object.prototype.valueOf gives the object back), and the elements of
\* an array, which join() converts, do
RECURSIVE Convertible(_)
Convertible(v) ==
  CASE v.t = "object" -> \A k \in 1..Len(v.keys) : v.keys[k] # Text("toString")
    [] v.t = "array" -> \A k \in 1..Len(v.a) : Convertible(v.a[k])
    [] OTHER -> TRUE

\* JavaScript ToString of a value: a TypeError when ToPrimitive throws
RECURSIVE JsToString(_)
RECURSIVE Join(_, _)
JsToString(v) ==
  IF ~Convertible(v) THEN Thrown("TypeError")
  ELSE CASE v.t = "string" -> v.s
         [] v.t \in {"number", "double"} -> NumberText(NumberOf(v))
         [] v.t = "boolean" -> (IF v.b THEN Text("true") ELSE Text("false"))
         [] v.t = "null" -> Text("null")
         [] v.t = "undefined" -> Text("undefined")
         [] v.t = "array" -> Join(v.a, 1)
         [] v.t = "object" -> Text("[object Object]")

\* Array.prototype.join(",") from element k on: a TypeError when the
\* ToString of an element throws
Join(a, k) ==
  IF \E j \in k..Len(a) : ~Convertible(a[j]) THEN Thrown("TypeError")
  ELSE IF k > Len(a) THEN <<>>
  ELSE (IF a[k].t \in {"null", "undefined"} THEN <<>> ELSE JsToString(a[k]))
         \o (IF k < Len(a) THEN Text(",") ELSE <<>>)
         \o Join(a, k + 1)

\* JavaScript ToNumber: a string is read as a numeric literal, an array or
\* an object by way of its ToString; a TypeError when ToPrimitive throws
ToNumber(v) ==
  IF ~Convertible(v) THEN Thrown("TypeError")
  ELSE CASE v.t = "undefined" -> NaN
         [] v.t = "null" -> Number(0, 0)
         [] v.t \in {"number", "double"} -> NumberOf(v)
         [] v.t = "boolean" -> Number(IF v.b THEN 1 ELSE 0, 0)
         [] v.t \in {"string", "array", "object"} ->
              The({StringToNumber(s) : s \in {JsToString(v)}})

\* x < n for a Number x and an integer n
NumberLess(x, n) ==
  IF x.nan THEN FALSE
  ELSE IF x.inf # 0 THEN x.inf < 0
  ELSE IF x.m = 0 THEN 0 < n
  ELSE IF x.e >= 0
    THEN IF x.e <= 9 /\ Abs(x.m) <= MaxInt \div Pow10(x.e)
           THEN x.m * Pow10(x.e) < n
         ELSE x.m < 0
  ELSE IF n = 0 THEN x.m < 0
  ELSE IF -x.e <= 9 /\ Abs(n) <= MaxInt \div Pow10(-x.e)
    THEN x.m < n * Pow10(-x.e)
  ELSE n > 0

\* x >= n for a Number x and an integer n
NumberGreaterEq(x, n) == ~x.nan /\ ~NumberLess(x, n)

\* JavaScript `v < n` and `v >= n` for an integer n: false when v is NaN,
\* a TypeError when ToPrimitive of v throws
JsLess(v, n) ==
  IF ~Convertible(v) THEN Thrown("TypeError") ELSE NumberLess(ToNumber(v), n)
JsGreaterEq(v, n) ==
  IF ~Convertible(v) THEN Thrown("TypeError") ELSE NumberGreaterEq(ToNumber(v), n)

\* The integer part of a Number: NaN is 0, otherwise truncation toward
\* zero.  Values beyond MaxInt, the infinities included, are given as
\* MaxInt or -MaxInt; splice clamps them to the length of the array.
Truncate(x) ==
  IF x.nan THEN 0
  ELSE IF x.inf # 0 THEN x.inf * MaxInt
  ELSE IF x.e >= 0
    THEN IF x.e <= 9 /\ Abs(x.m) <= MaxInt \div Pow10(x.e)
           THEN x.m * Pow10(x.e)
         ELSE (IF x.m < 0 THEN -MaxInt ELSE MaxInt)
  ELSE IF -x.e > 9 THEN 0
  ELSE IF x.m >= 0 THEN x.m \div Pow10(-x.e)
  ELSE -((-x.m) \div Pow10(-x.e))

\* JavaScript ToIntegerOrInfinity: a TypeError when ToPrimitive throws
ToInteger(v) ==
  IF ~Convertible(v) THEN Thrown("TypeError") ELSE Truncate(ToNumber(v))

\* splice: the actual start of a relative start in an array of len elements
ActualStart(rel, len) ==
  IF rel < 0 THEN Max(len + rel, 0) ELSE Min(rel, len)

\* splice: the array without the elements from actualStart on that
\* deleteCount, clamped to what is there, takes out.  Positions are 0-based
\* as in the source; the sequence is 1-based.
Delete(arr, actualStart, deleteCount) ==
  SubSeq(arr, 1, actualStart)
    \o SubSeq(arr,
              actualStart + Min(Max(deleteCount, 0), Len(arr) - actualStart) + 1,
              Len(arr))

\* Array.prototype.splice(start, 1) on a sequence: the array that is left,
\* a TypeError, with the array as it was, when ToPrimitive of start throws.
\* (defect) the element after the addressed one is taken out
SpliceOneOff(arr, start) ==
  IF ~Convertible(start) THEN Thrown("TypeError")
  ELSE Delete(arr, Min(ActualStart(ToInteger(start), Len(arr)) + 1, Len(arr) - 1), 1)

SpliceOne(arr, start) ==
  IF ~Convertible(start) THEN Thrown("TypeError")
  ELSE Delete(arr, ActualStart(ToInteger(start), Len(arr)), 1)

(***************************************************************************)
(* JSON.parse, as POST /exams of src/api/exams.js applies it to the `exam` *)
(* field.  A parsed value is a tagged record like the values of a body;    *)
(* an escape stands for its code unit.                                     *)
(***************************************************************************)
\* the value sign * d * 10^e of a number of the text, d no multiple of ten:
\* Num when twice the value is an integer
Halves(x, d, e) ==
  IF e >= 0 /\ e <= 8 /\ d <= 1000000000 \div Pow10(e + 1)
    THEN Num((IF x.m < 0 THEN -1 ELSE 1) * 2 * d * Pow10(e))
  ELSE IF e = -1 /\ d % 5 = 0 THEN Num((IF x.m < 0 THEN -1 ELSE 1) * (d \div 5))
  ELSE Double(x)

NumberValue(x) ==
  IF x.nan \/ x.inf # 0 THEN Double(x)
  ELSE IF x.m = 0 THEN Num(0)
  ELSE The({Halves(x, z[1], z[2]) : z \in {StripZeros(Abs(x.m), x.e)}})

JsonNumber(text) == The({NumberValue(x) : x \in {StringToNumber(text)}})

JsonWhiteSpace == {Chr(" "), 9, 10, 13}

\* the position of the first code unit from `from` on that is no white
\* space
RECURSIVE SkipWs(_, _)
SkipWs(text, from) ==
  The({IF Char(s, i) \in JsonWhiteSpace THEN SkipWs(s, i + 1) ELSE i :
         s \in {text}, i \in {from}})

\* a value read from the text and the position after it / what JSON.parse
\* throws: a SyntaxError on a text that is no JSON, a TypeError when the
\* ToString of its argument throws
Parsed(v, i) == [ok |-> TRUE, v |-> v, i |-> i, error |-> ""]
NotJson == [ok |-> FALSE, v |-> Null, i |-> 0, error |-> "SyntaxError"]
NoText == [ok |-> FALSE, v |-> Null, i |-> 0, error |-> "TypeError"]

\* the position of the first code unit from `from` on that is no digit
RECURSIVE DigitsEnd(_, _)
DigitsEnd(text, from) ==
  The({IF Char(s, i) \in Digits THEN DigitsEnd(s, i + 1) ELSE i :
         s \in {text}, i \in {from}})

\* -? (0 | [1-9][0-9]*) (. [0-9]+)? ([eE] [+-]? [0-9]+)?: a is the position
\* after the sign, b after the integer part, c after the fraction, x of
\* the digits of the exponent and d after them
ParseNumber(s, i) ==
  The({The({The({The({The({
    IF b = a \/ (Char(s, b) = Chr(".") /\ c = b + 1) \/ (x # c /\ d = x)
      THEN NotJson
    ELSE Parsed(JsonNumber(Slice(s, i, d - 1)), d) :
      d \in {IF x = c THEN c ELSE DigitsEnd(s, x)}}) :
      x \in {IF Char(s, c) \in {Chr("e"), Chr("E")}
               THEN (IF Char(s, c + 1) \in {Chr("+"), Chr("-")} THEN c + 2 ELSE c + 1)
             ELSE c}}) :
      c \in {IF Char(s, b) = Chr(".") THEN DigitsEnd(s, b + 1) ELSE b}}) :
      b \in {IF Char(s, a) = Chr("0") THEN a + 1 ELSE DigitsEnd(s, a)}}) :
      a \in {IF Char(s, i) = Chr("-") THEN i + 1 ELSE i}})

\* the code unit an escape stands for: \b, \f, \n, \r and \t are U+0008,
\* U+000C, U+000A, U+000D and U+0009
Unescaped(e) ==
  CASE e = Chr("b") -> 8
    [] e = Chr("f") -> 12
    [] e = Chr("n") -> 10
    [] e = Chr("r") -> 13
    [] e = Chr("t") -> 9
    [] OTHER -> e

\* the code unit \uXXXX stands for, given XXXX
UnicodeEscape(hex) == DigitsToInt(hex, 16)

\* U+0000 to U+001F
RawControls == 0..31

\* the code units of a string from position `from` up to its closing quote,
\* after those of `chars`: a control character (below U+0020) must be
\* escaped
RECURSIVE ParseChars(_, _, _)
ParseChars(text, from, chars) ==
  The({IF ch = -1 \/ ch \in RawControls THEN NotJson
       ELSE IF ch = Chr("\"") THEN Parsed(Str(acc), i + 1)
       ELSE IF ch # Chr("\\") THEN ParseChars(s, i + 1, Append(acc, ch))
       ELSE IF e \in {Chr("\""), Chr("\\"), Chr("/"), Chr("b"), Chr("f"),
                      Chr("n"), Chr("r"), Chr("t")}
         THEN ParseChars(s, i + 2, Append(acc, Unescaped(e)))
       ELSE IF e = Chr("u") /\ Len(Slice(s, i + 2, i + 5)) = 4
                 /\ AllIn(Slice(s, i + 2, i + 5), HexDigits)
         THEN ParseChars(s, i + 6, Append(acc, UnicodeEscape(Slice(s, i + 2, i + 5))))
       ELSE NotJson :
         s \in {text}, i \in {from}, acc \in {chars},
         ch \in {Char(text, from)}, e \in {Char(text, from + 1)}})

\* a key that is an array index: a canonical numeric string below 2^32 - 1
IsIndex(key) ==
  /\ key # <<>>
  /\ AllIn(key, Digits)
  /\ key[1] = Chr("0") => Len(key) = 1
  /\ Len(key) <= 10
  /\ Len(key) = 10 =>
       \/ key = Text("4294967294")
       \/ \E i \in 1..10 :
            /\ key[i] < Text("4294967294")[i]
            /\ \A j \in 1..(i - 1) : key[j] = Text("4294967294")[j]

\* of two array indices, a is the smaller
IndexBelow(a, b) ==
  \/ Len(a) < Len(b)
  \/ /\ Len(a) = Len(b)
     /\ \E i \in 1..Len(a) :
          a[i] < b[i] /\ \A j \in 1..(i - 1) : a[j] = b[j]

\* the place, among the members `keys`, of a member that is new: array
\* indices come first, in ascending order, the other keys after them in
\* the order in which they were defined
Place(keys, key) ==
  IF IsIndex(key)
    THEN 1 + Cardinality({k \in 1..Len(keys) :
                            IsIndex(keys[k]) /\ IndexBelow(keys[k], key)})
  ELSE Len(keys) + 1

Insert(seq, at, x) == SubSeq(seq, 1, at - 1) \o <<x>> \o SubSeq(seq, at, Len(seq))

\* the object of the members keys, vals after the member key: val is
\* defined; a member of that name keeps its place and takes the value
Define(keys, vals, key, val) ==
  IF \E k \in 1..Len(keys) : keys[k] = key
    THEN Obj(keys, [k \in 1..Len(keys) |-> IF keys[k] = key THEN val ELSE vals[k]])
  ELSE Obj(Insert(keys, Place(keys, key), key), Insert(vals, Place(keys, key), val))

RECURSIVE ParseValue(_, _)
RECURSIVE ParseElements(_, _, _)
RECURSIVE ParseMembers(_, _, _, _)

\* the elements of an array after those of acc, r being the next of them
\* as it was read and j the position of what follows it
NextElement(s, r, j, acc) ==
  IF ~r.ok THEN NotJson
  ELSE IF Char(s, j) = Chr(",") THEN ParseElements(s, j + 1, Append(acc, r.v))
  ELSE IF Char(s, j) = Chr("]") THEN Parsed(Arr(Append(acc, r.v)), j + 1)
  ELSE NotJson

\* the elements of an array from position i, after those of acc
ParseElements(s, i, acc) ==
  The({The({NextElement(s, r, j, a) : j \in {SkipWs(s, r.i)}}) :
         r \in {ParseValue(s, i)}, a \in {acc}})

\* the members of an object after those of keys and vals, k being the key
\* of the next of them as it was read, r its value and d the position of
\* what follows it
NextMember(s, k, r, d, keys, vals) ==
  IF ~r.ok THEN NotJson
  ELSE IF Char(s, d) = Chr(",")
    THEN ParseMembers(s, d + 1, Define(keys, vals, k.v.s, r.v).keys,
                      Define(keys, vals, k.v.s, r.v).vals)
  ELSE IF Char(s, d) = Chr("}")
    THEN Parsed(Define(keys, vals, k.v.s, r.v), d + 1)
  ELSE NotJson

\* the value of a member after its key k and the colon at position c
MemberValue(s, k, c, keys, vals) ==
  IF ~k.ok THEN NotJson
  ELSE IF Char(s, c) # Chr(":") THEN NotJson
  ELSE The({The({NextMember(s, k, r, d, ks, vs) : d \in {SkipWs(s, r.i)}}) :
              r \in {ParseValue(s, c + 1)}, ks \in {keys}, vs \in {vals}})

\* the members of an object from position i, after those of keys and vals
ParseMembers(s, i, keys, vals) ==
  The({IF Char(s, j) # Chr("\"") THEN NotJson
       ELSE The({The({MemberValue(s, k, c, keys, vals) : c \in {SkipWs(s, k.i)}}) :
                   k \in {ParseChars(s, j + 1, <<>>)}}) :
         j \in {SkipWs(s, i)}})

\* the value that starts at position j with the code unit ch, inner being
\* the position of what follows ch
ValueAt(s, j, ch, inner) ==
  IF ch = Chr("{")
    THEN (IF Char(s, inner) = Chr("}") THEN Parsed(Obj(<<>>, <<>>), inner + 1)
          ELSE ParseMembers(s, j + 1, <<>>, <<>>))
  ELSE IF ch = Chr("[")
    THEN (IF Char(s, inner) = Chr("]") THEN Parsed(Arr(<<>>), inner + 1)
          ELSE ParseElements(s, j + 1, <<>>))
  ELSE IF ch = Chr("\"") THEN ParseChars(s, j + 1, <<>>)
  ELSE IF ch = Chr("-") \/ ch \in Digits THEN ParseNumber(s, j)
  ELSE IF Slice(s, j, j + 3) = Text("true") THEN Parsed(Bool(TRUE), j + 4)
  ELSE IF Slice(s, j, j + 4) = Text("false") THEN Parsed(Bool(FALSE), j + 5)
  ELSE IF Slice(s, j, j + 3) = Text("null") THEN Parsed(Null, j + 4)
  ELSE NotJson

ParseValue(s, i) ==
  The({The({ValueAt(s, j, ch, inner) : ch \in {Char(s, j)}, inner \in {SkipWs(s, j + 1)}}) :
         j \in {SkipWs(s, i)}})

\* a value that is all of the text but for white space after it
Whole(s, read) ==
  The({IF r.ok /\ SkipWs(s, r.i) = Len(s) + 1 THEN r ELSE NotJson : r \in {read}})

\* JSON.parse of a text: the value, or NotJson where it throws a SyntaxError
JsonParseText(text) == The({Whole(s, ParseValue(s, 1)) : s \in {text}})

\* JSON.parse(v): the text is ToString(v)
JsonParse(v) == IF ~Convertible(v) THEN NoText ELSE JsonParseText(JsToString(v))
(***************************************************************************)
(* The schema (examSchema) and what mongoose does with a value of it.      *)
(***************************************************************************)
\* a path that holds no value in a document (no string: a code unit is
\* not negative)
Absent == <<-1>>

MetaFields == {"division", "level", "term", "subject", "year"}

\* a path whose value cannot be cast to its schema type (CastError)
CastFailed == <<-2>>

\* Casting to the schema type String: numbers and booleans by toString(),
\* arrays and objects not at all.
CastString(v) ==
  CASE v.t = "string" -> v.s
    [] v.t \in {"number", "double"} -> NumberText(NumberOf(v))
    [] v.t = "boolean" -> (IF v.b THEN Text("true") ELSE Text("false"))
    [] v.t \in {"undefined", "null"} -> Absent
    [] OTHER -> CastFailed

\* Casting to an array of String: each element of an array is cast, a
\* value that is no array is cast as an array of one element, and a path
\* without a value is the empty array.
CastStringArray(v) ==
  IF v.t \in {"undefined", "null"} THEN <<>>
  ELSE IF v.t = "array" THEN [k \in 1..Len(v.a) |-> CastString(v.a[k])]
  ELSE <<CastString(v)>>

\* (defect) a schema without the image path
CastQuestionNoImage(q) ==
  [question |-> CastString(q.question),
   choices |-> CastStringArray(q.choices),
   image |-> Absent]

\* A subdocument of `exam`: only the schema's paths are kept.
CastQuestion(q) ==
  [question |-> CastString(q.question),
   choices |-> CastStringArray(q.choices),
   image |-> CastString(q.image)]

CastExam(v) == [k \in 1..Len(v.a) |-> CastQuestion(v.a[k])]

\* `required: true` on a String path.
Required(s) == s # Absent /\ s # <<>> /\ s # CastFailed

\* (defect) the validator accepts any non-empty array
ChoicesNonEmpty(val) == Len(val) >= 1

\* The validator of `choices`: (val) => val.length >= 2.
ChoicesValidator(val) == Len(val) >= 2

ValidQuestion(q) ==
  /\ Required(q.question)
  /\ ChoicesValidator(q.choices)
  /\ \A k \in 1..Len(q.choices) : q.choices[k] # CastFailed
  /\ q.image # CastFailed

ValidExam(exam) == \A k \in 1..Len(exam) : ValidQuestion(exam[k])

\* Document validation, run by save().
ValidDocument(doc) ==
  /\ \A f \in MetaFields : Required(doc[f])
  /\ ValidExam(doc.exam)

(***************************************************************************)
(* The store: the documents of the collection by _id, in insertion order.  *)
(***************************************************************************)
Ids == 1..MaxDocs
\* an :id that is no ObjectId (findById throws a CastError)
MalformedId == 0

Filter(req) == [f \in MetaFields |-> CastString(req[f])]

Matches(doc, filter) == \A f \in MetaFields : doc[f] = filter[f]

Matching(docs, filter) == {i \in DOMAIN docs : Matches(docs[i], filter)}

\* (defect) the last matching document is taken
LastMatch(docs, filter) ==
  CHOOSE i \in Matching(docs, filter) :
    \A j \in Matching(docs, filter) : i >= j

\* findOne / findOneAndUpdate act on the first document in natural order.
FirstMatch(docs, filter) ==
  CHOOSE i \in Matching(docs, filter) :
    \A j \in Matching(docs, filter) : i <= j

\* The collection with document id inserted or replaced / removed.
Put(docs, id, doc) ==
  [i \in (DOMAIN docs) \cup {id} |-> IF i = id THEN doc ELSE docs[i]]
\* (defect) the document is looked up but not removed
DropNothing(docs, id) == docs

Drop(docs, id) == [i \in (DOMAIN docs) \ {id} |-> docs[i]]

\* new Exam({...}): the document built from a create-exam body.
NewExam(req) ==
  [division |-> CastString(req.division),
   level |-> CastString(req.level),
   term |-> CastString(req.term),
   subject |-> CastString(req.subject),
   year |-> CastString(req.year),
   exam |-> CastExam(req.exam),
   v |-> 0]

(***************************************************************************)
(* Answers.  Every catch block sends { message, error: err.message } with  *)
(* the status and the message of its handler.                              *)
(***************************************************************************)
Message(m) == [message |-> m]
Failure(m, e) == [message |-> m, error |-> e]

Response(op, status, body) == [op |-> op, status |-> status, body |-> body]

\* err.message of a store call that the store rejected
StoreError == "MongoNetworkError"

\* (defect) every catch block answers 500
CatchStatusAlways500(op) == 500

\* the status of the catch block of each handler
CatchStatus(op) == IF op \in {"create", "upload", "update"} THEN 400 ELSE 500

\* the message of the catch block of each handler
CatchMessage(op) ==
  CASE op = "list" -> "Failed to retrieve exams"
    [] op = "get" -> "Failed to retrieve exam"
    [] op \in {"create", "upload"} -> "Failed to create exam"
    [] op = "append" -> "Failed to add question"
    [] op = "remove" -> "Failed to remove question"
    [] op = "update" -> "Failed to update exam"
    [] op = "delete" -> "Failed to delete exam"

Caught(op, error) == Response(op, CatchStatus(op), Failure(CatchMessage(op), error))

(***************************************************************************)
(* The route handlers, as the event loop runs them.  A handler runs up to  *)
(* its await (Call), the store runs the operation it was sent, and the     *)
(* handler resumes with the result and answers (Answer).  Other handlers   *)
(* and other store operations can run in between.  remove-question awaits  *)
(* twice: findOne, then save.  A CastError or a ValidationError is the     *)
(* rejection of the awaited call: the handler answers it when it resumes,  *)
(* like any other result.                                                  *)
(***************************************************************************)
\* one slot per handler that can be suspended at a time
Clients == {"c1", "c2"}

Idle == [at |-> "idle"]

\* a handler suspended on a store call that the store has not run yet
Calling(op, req) == [at |-> "call", op |-> op, req |-> req]

\* a handler whose store call has settled, not yet resumed
Done(op, req, result) == [at |-> "done", op |-> op, req |-> req, result |-> result]

\* what a store call settles with
NoDocument == [kind |-> "none"]
Document(id, doc) == [kind |-> "doc", id |-> id, doc |-> doc]
Documents(docs) == [kind |-> "docs", exams |-> docs]
Rejected(error) == [kind |-> "error", error |-> error]

\* What the API returns for a document: the document with its _id.
Json(result) == [id |-> result.id, doc |-> result.doc]

Suspended(c, op) == pending[c].at = "call" /\ pending[c].op = op
Settled(c, op) == pending[c].at = "done" /\ pending[c].op = op

\* nothing has been answered, and the store has rejected no call
NoneAnswered ==
  [append |-> 0, remove |-> 0, pushed |-> <<>>, failed |-> FALSE]

Init ==
  /\ store = <<>>
  /\ nextId = 1
  /\ pending = [c \in Clients |-> Idle]
  /\ last = Response("none", 0, Message(""))
  /\ answered = NoneAnswered

\* the handler answers and returns
Answer(c, response) ==
  /\ last' = response
  /\ pending' = [pending EXCEPT ![c] = Idle]

\* the handler answers before any await
AnswerAtOnce(response) ==
  /\ last' = response
  /\ UNCHANGED <<store, nextId, pending, answered>>

\* the handler suspends on its store call
Suspend(c, op, req) ==
  /\ pending' = [pending EXCEPT ![c] = Calling(op, req)]
  /\ UNCHANGED <<store, nextId, last, answered>>

\* the store call of the handler settles with a result, the store is read
Settle(c, result) ==
  /\ pending' = [pending EXCEPT ![c] = Done(pending[c].op, pending[c].req, result)]
  /\ UNCHANGED <<store, nextId, last, answered>>

\* GET /exams
ListExamsCall(c) ==
  /\ pending[c] = Idle
  /\ Suspend(c, "list", Undef)

\* Exam.find()
ListExamsFind(c) ==
  /\ Suspended(c, "list")
  /\ Settle(c, Documents(store))

ListExamsAnswer(c) ==
  /\ Settled(c, "list")
  /\ LET r == pending[c].result IN
     Answer(c, IF r.kind = "error" THEN Caught("list", r.error)
               ELSE Response("list", 200, [exams |-> r.exams]))
  /\ UNCHANGED <<store, nextId, answered>>

\* GET /exams/:id up to `await Exam.findById(...)`
GetExamCall(c, id) ==
  /\ pending[c] = Idle
  /\ Suspend(c, "get", [id |-> id])

\* Exam.findById(req.params.id): an :id that is no ObjectId is a CastError
GetExamFind(c) ==
  /\ Suspended(c, "get")
  /\ LET id == pending[c].req.id IN
     Settle(c, IF id = MalformedId THEN Rejected("CastError")
               ELSE IF id \in DOMAIN store THEN Document(id, store[id])
               ELSE NoDocument)

GetExamAnswer(c) ==
  /\ Settled(c, "get")
  /\ LET r == pending[c].result IN
     Answer(c, CASE r.kind = "error" -> Caught("get", r.error)
                 [] r.kind = "none" -> Response("get", 404, Message("Exam not found"))
                 [] r.kind = "doc" -> Response("get", 200, Json(r)))
  /\ UNCHANGED <<store, nextId, answered>>

\* the `!division || ... || !exam` check of POST /exams
CreateFieldMissing(req) ==
  \/ ~Truthy(req.division)
  \/ ~Truthy(req.level)
  \/ ~Truthy(req.term)
  \/ ~Truthy(req.subject)
  \/ ~Truthy(req.year)
  \/ ~Truthy(req.exam)

\* POST /exams up to `await newExam.save()`: the presence check and
\* new Exam({...}).
CreateExamCall(c, req) ==
  /\ pending[c] = Idle
  /\ IF CreateFieldMissing(req)
       THEN AnswerAtOnce(Response("create", 400, Message("All fields are required")))
     ELSE /\ ValidDocument(NewExam(req)) => nextId <= MaxDocs
          /\ Suspend(c, "create", req)

\* newExam.save(): the validation, which rejects with a ValidationError,
\* then the insert
CreateExamInsert(c) ==
  /\ Suspended(c, "create")
  /\ IF ~ValidDocument(NewExam(pending[c].req))
       THEN Settle(c, Rejected("ValidationError"))
     ELSE /\ nextId <= MaxDocs
          /\ store' = Put(store, nextId, NewExam(pending[c].req))
          /\ nextId' = nextId + 1
          /\ pending' = [pending EXCEPT ![c] =
               Done("create", pending[c].req, Document(nextId, store'[nextId]))]
          /\ UNCHANGED <<last, answered>>

CreateExamAnswer(c) ==
  /\ Settled(c, "create")
  /\ LET r == pending[c].result IN
     Answer(c, IF r.kind = "error" THEN Caught("create", r.error)
               ELSE Response("create", 201, Message("Exam created successfully")))
  /\ UNCHANGED <<store, nextId, answered>>

\* the presence check of PUT /exams/add-question
AppendFieldMissing(req) ==
  \/ ~Truthy(req.division)
  \/ ~Truthy(req.level)
  \/ ~Truthy(req.term)
  \/ ~Truthy(req.subject)
  \/ ~Truthy(req.year)
  \/ ~Truthy(req.question)
  \/ ~Truthy(req.choices)

\* the subdocument of { $push: { exam: { question, choices } } }
Pushed(req) ==
  CastQuestion([question |-> req.question, choices |-> req.choices, image |-> Undef])

\* (defect) $addToSet in place of $push: a question already there is not added
AddToSet(exam, q) ==
  IF \E k \in 1..Len(exam) : exam[k] = q THEN exam ELSE Append(exam, q)

\* { $push: { exam: q } } applied by the store to the array it holds
Push(exam, q) == Append(exam, q)

\* the exam of the request has room for a question (bound of the model)
AppendRoom(req) ==
  \A id \in Matching(store, Filter(req)) : Len(store[id].exam) < MaxQuestions

\* PUT /exams/add-question up to `await Exam.findOneAndUpdate(...)`
AppendQuestionCall(c, req) ==
  /\ pending[c] = Idle
  /\ IF AppendFieldMissing(req)
       THEN AnswerAtOnce(Response("append", 400, Message("All fields are required")))
     ELSE /\ ValidQuestion(Pushed(req)) => AppendRoom(req)
          /\ Suspend(c, "append", req)

\* (defect) findOneAndUpdate with upsert: a document is inserted
AppendUpserts(c) ==
  /\ nextId <= MaxDocs
  /\ store' = Put(store, nextId,
                  Filter(pending[c].req) @@ [v |-> 0, exam |-> <<Pushed(pending[c].req)>>])
  /\ nextId' = nextId + 1
  /\ pending' = [pending EXCEPT ![c] =
       Done("append", pending[c].req, Document(nextId, store'[nextId]))]
  /\ UNCHANGED <<last, answered>>

\* findOneAndUpdate when no document matches: null, nothing is written
AppendNotFound(c) == Settle(c, NoDocument)

\* findOneAndUpdate: the update validators (runValidators) on the pushed
\* subdocument reject with a ValidationError; otherwise the store runs the
\* update: one document, one operation; { new: true } returns the document
\* after the update.
AppendQuestionApply(c) ==
  /\ Suspended(c, "append")
  /\ LET req == pending[c].req IN
     IF ~ValidQuestion(Pushed(req))
       THEN Settle(c, Rejected("ValidationError"))
     ELSE IF Matching(store, Filter(req)) = {}
       THEN AppendNotFound(c)
     ELSE LET id == FirstMatch(store, Filter(req))
              doc == [store[id] EXCEPT !.exam = Push(@, Pushed(req))]
          IN /\ Len(store[id].exam) < MaxQuestions
             /\ store' = Put(store, id, doc)
             /\ pending' = [pending EXCEPT ![c] = Done("append", req, Document(id, doc))]
             /\ UNCHANGED <<nextId, last, answered>>

AppendQuestionAnswer(c) ==
  /\ Settled(c, "append")
  /\ LET r == pending[c].result IN
     /\ Answer(c, CASE r.kind = "error" -> Caught("append", r.error)
                    [] r.kind = "none" ->
                         Response("append", 404, Message("Exam document not found"))
                    [] r.kind = "doc" ->
                         Response("append", 200,
                                  [message |-> "Question added successfully",
                                   updatedExam |-> Json(r)]))
     /\ answered' =
          IF r.kind = "doc"
            THEN [answered EXCEPT !.append = @ + 1,
                                  !.pushed = Append(@, Pushed(pending[c].req))]
          ELSE answered
  /\ UNCHANGED <<store, nextId>>

\* (defect) `!index` in place of `index === undefined`
RemoveFieldFalsy(req) ==
  \/ ~Truthy(req.division)
  \/ ~Truthy(req.level)
  \/ ~Truthy(req.term)
  \/ ~Truthy(req.subject)
  \/ ~Truthy(req.year)
  \/ ~Truthy(req.index)

\* the presence check of DELETE /exams/remove-question
RemoveFieldMissing(req) ==
  \/ ~Truthy(req.division)
  \/ ~Truthy(req.level)
  \/ ~Truthy(req.term)
  \/ ~Truthy(req.subject)
  \/ ~Truthy(req.year)
  \/ req.index = Undef

\* `index < 0 || index >= exam.exam.length`: a TypeError when ToPrimitive
\* of index throws
InvalidIndex(index, exam) ==
  IF ~Convertible(index) THEN Thrown("TypeError")
  ELSE JsLess(index, 0) \/ JsGreaterEq(index, Len(exam))

\* a handler of remove-question between findOne and its resumption, on its
\* save(), and after save() has settled
Found(req, result) == [at |-> "found", op |-> "remove", req |-> req, result |-> result]
Saving(req, id, doc) ==
  [at |-> "save", op |-> "remove", req |-> req, id |-> id, doc |-> doc]
Written(req, result) ==
  [at |-> "saved", op |-> "remove", req |-> req, result |-> result]

\* the version key of the exam of the request can advance (bound of the model)
RemoveRoom(req) ==
  \A id \in Matching(store, Filter(req)) : store[id].v < MaxVersion

\* DELETE /exams/remove-question up to `await Exam.findOne(...)`
RemoveQuestionCall(c, req) ==
  /\ pending[c] = Idle
  /\ IF RemoveFieldMissing(req)
       THEN AnswerAtOnce(Response("remove", 400, Message("All fields are required")))
     ELSE /\ RemoveRoom(req)
          /\ Suspend(c, "remove", req)

\* Exam.findOne({ division, level, term, subject, year })
RemoveQuestionFind(c) ==
  /\ Suspended(c, "remove")
  /\ LET filter == Filter(pending[c].req) IN
     pending' = [pending EXCEPT ![c] =
       Found(pending[c].req,
             IF Matching(store, filter) = {} THEN NoDocument
             ELSE Document(FirstMatch(store, filter),
                           store[FirstMatch(store, filter)]))]
  /\ UNCHANGED <<store, nextId, last, answered>>

\* The handler resumes with what findOne gave: the catch block when findOne
\* was rejected, 404, the index check, whose comparison throws a TypeError
\* into the catch block when the index has no primitive value, then the
\* splice on the document it holds, up to `await exam.save()`.
RemoveQuestionResume(c) ==
  /\ pending[c].at = "found"
  /\ UNCHANGED <<store, nextId, answered>>
  /\ LET req == pending[c].req
         r == pending[c].result
     IN IF r.kind = "error"
          THEN Answer(c, Caught("remove", r.error))
        ELSE IF r.kind = "none"
          THEN Answer(c, Response("remove", 404, Message("Exam document not found")))
        ELSE IF ~Convertible(req.index)
          THEN Answer(c, Caught("remove", InvalidIndex(req.index, r.doc.exam).throws))
        ELSE IF InvalidIndex(req.index, r.doc.exam)
          THEN Answer(c, Response("remove", 400, Message("Invalid question index")))
        ELSE \E doc \in {[r.doc EXCEPT !.exam = SpliceOne(@, req.index)]} :
          /\ ValidDocument(doc) => r.doc.v < MaxVersion
          /\ pending' = [pending EXCEPT ![c] = Saving(req, r.id, doc)]
          /\ last' = last

\* The write of save() after a splice: { $set: { exam }, $inc: { __v: 1 } }
\* where { _id, __v } are the values that were read.
\* (defect) a schema with versionKey: false, the write is by _id alone
SaveAppliesUnversioned(docs, p) == p.id \in DOMAIN docs

SaveApplies(docs, p) == p.id \in DOMAIN docs /\ docs[p.id].v = p.doc.v

Saved(docs, p) ==
  Put(docs, p.id, [docs[p.id] EXCEPT !.exam = p.doc.exam, !.v = @ + 1])

\* exam.save(): the validation of the document as the splice left it
\* rejects with a ValidationError and nothing is sent; otherwise the store
\* runs the update, and when it matches no document save() rejects with a
\* VersionError.
RemoveQuestionWrite(c) ==
  /\ pending[c].at = "save"
  /\ LET p == pending[c] IN
     IF ~ValidDocument(p.doc)
       THEN /\ pending' = [pending EXCEPT ![c] =
                 Written(p.req, Rejected("ValidationError"))]
            /\ store' = store
     ELSE IF SaveApplies(store, p)
       THEN /\ store' = Saved(store, p)
            /\ pending' = [pending EXCEPT ![c] =
                 Written(p.req, Document(p.id, [p.doc EXCEPT !.v = @ + 1]))]
     ELSE /\ pending' = [pending EXCEPT ![c] = Written(p.req, Rejected("VersionError"))]
          /\ store' = store
  /\ UNCHANGED <<nextId, last, answered>>

RemoveQuestionAnswer(c) ==
  /\ pending[c].at = "saved"
  /\ LET r == pending[c].result IN
     /\ Answer(c, IF r.kind = "error" THEN Caught("remove", r.error)
                  ELSE Response("remove", 200,
                                [message |-> "Question removed successfully",
                                 exam |-> Json(r)]))
     /\ answered' = IF r.kind = "doc" THEN [answered EXCEPT !.remove = @ + 1]
                    ELSE answered
  /\ UNCHANGED <<store, nextId>>

\* The paths a PUT /exams/:id body sets, and the update validators on them.
BodyFields(body) == {f \in MetaFields : body[f] # Undef}

ValidUpdate(body) ==
  /\ \A f \in BodyFields(body) : Required(CastString(body[f]))
  /\ body.exam # Undef => ValidExam(CastExam(body.exam))

\* (defect) the body replaces the document, unnamed paths are dropped
UpdatedOverwrite(doc, body) ==
  [f \in DOMAIN doc |->
     IF f \in BodyFields(body) THEN CastString(body[f])
     ELSE IF f = "exam" THEN (IF body.exam # Undef THEN CastExam(body.exam) ELSE <<>>)
     ELSE IF f = "v" THEN doc[f]
     ELSE Absent]

Updated(doc, body) ==
  [f \in DOMAIN doc |->
     IF f \in BodyFields(body) THEN CastString(body[f])
     ELSE IF f = "exam" /\ body.exam # Undef THEN CastExam(body.exam)
     ELSE doc[f]]

\* PUT /exams/:id up to `await Exam.findByIdAndUpdate(...)`
UpdateExamCall(c, id, body) ==
  /\ pending[c] = Idle
  /\ Suspend(c, "update", [id |-> id, body |-> body])

\* findByIdAndUpdate(id, body, {new, runValidators}): the cast of the id
\* rejects with a CastError, the update validators with a ValidationError;
\* otherwise the store runs the update
UpdateExamApply(c) ==
  /\ Suspended(c, "update")
  /\ LET id == pending[c].req.id
         body == pending[c].req.body
     IN IF id = MalformedId
          THEN Settle(c, Rejected("CastError"))
        ELSE IF ~ValidUpdate(body)
          THEN Settle(c, Rejected("ValidationError"))
        ELSE IF id \notin DOMAIN store
          THEN Settle(c, NoDocument)
        ELSE /\ store' = Put(store, id, Updated(store[id], body))
             /\ pending' = [pending EXCEPT ![c] =
                  Done("update", pending[c].req, Document(id, store'[id]))]
             /\ UNCHANGED <<nextId, last, answered>>

UpdateExamAnswer(c) ==
  /\ Settled(c, "update")
  /\ LET r == pending[c].result IN
     Answer(c, CASE r.kind = "error" -> Caught("update", r.error)
                 [] r.kind = "none" -> Response("update", 404, Message("Exam not found"))
                 [] r.kind = "doc" -> Response("update", 200, Json(r)))
  /\ UNCHANGED <<store, nextId, answered>>

\* DELETE /exams/:id up to `await Exam.findByIdAndDelete(...)`
DeleteExamCall(c, id) ==
  /\ pending[c] = Idle
  /\ Suspend(c, "delete", [id |-> id])

\* Exam.findByIdAndDelete(req.params.id): an :id that is no ObjectId is a
\* CastError
DeleteExamApply(c) ==
  /\ Suspended(c, "delete")
  /\ LET id == pending[c].req.id IN
     IF id = MalformedId
       THEN Settle(c, Rejected("CastError"))
     ELSE IF id \notin DOMAIN store
       THEN Settle(c, NoDocument)
     ELSE /\ store' = Drop(store, id)
          /\ pending' = [pending EXCEPT ![c] =
               Done("delete", pending[c].req, Document(id, store[id]))]
          /\ UNCHANGED <<nextId, last, answered>>

DeleteExamAnswer(c) ==
  /\ Settled(c, "delete")
  /\ LET r == pending[c].result IN
     Answer(c, CASE r.kind = "error" -> Caught("delete", r.error)
                 [] r.kind = "none" -> Response("delete", 404, Message("Exam not found"))
                 [] r.kind = "doc" -> Response("delete", 204, Message("")))
  /\ UNCHANGED <<store, nextId, answered>>
(***************************************************************************)
(* POST /exams of src/api/exams.js, the module src/api/index.js serves:    *)
(* multer's upload.array('images', 10), then a handler that takes `exam`   *)
(* as a JSON text.  Its schema has no validator on the number of choices;  *)
(* each choice is a required String.                                       *)
(***************************************************************************)
\* an uploaded file: its original name, its MIME type, its size in bytes and
\* the suffix diskStorage's filename() drew for it (Date.now() and
\* Math.random())
File(name, mime, size, suffix) ==
  [name |-> name, mime |-> mime, size |-> size, suffix |-> suffix]

\* path.extname (posix): the slashes the path ends with do not count; from
\* the last dot of the last segment of the path, "" when that has no dot,
\* starts with its last dot, or is ".."
ExtOf(base) ==
  The({IF dot <= 1 \/ base = Text("..") THEN <<>> ELSE Slice(base, dot, Len(base)) :
         dot \in {LastIndexOf(base, {Chr(".")})}})
ExtName(name) ==
  The({The({ExtOf(Slice(name, start + 1, end)) :
              start \in {LastIndexOf(Slice(name, 1, end), {Chr("/")})}}) :
         end \in {IF \A i \in 1..Len(name) : name[i] = Chr("/") THEN 0
                  ELSE CHOOSE i \in 1..Len(name) :
                         /\ name[i] # Chr("/")
                         /\ \A j \in (i + 1)..Len(name) : name[j] = Chr("/")}})

\* the code units toLowerCase() turns into a letter a-z: the letter and its
\* capital (the one other string whose lower case holds a letter of the
\* words below is U+0130, which becomes i followed by U+0307 and cannot
\* stand for the i of gif)
LowersTo(letter) == {letter, letter - 32}

\* s.toLowerCase() holds the word at position i
LowerHolds(s, i, word) ==
  /\ i + Len(word) - 1 <= Len(s)
  /\ \A k \in 1..Len(word) : s[i + k - 1] \in LowersTo(word[k])

Contains(s, sub) ==
  \E i \in 1..(Len(s) - Len(sub) + 1) : Slice(s, i, i + Len(sub) - 1) = sub

Words == {Text("jpeg"), Text("jpg"), Text("png"), Text("gif")}

\* /jpeg|jpg|png|gif/.test(s), and the same of s.toLowerCase()
FileTypes(s) == \E sub \in Words : Contains(s, sub)
LowerFileTypes(s) == \E sub \in Words : \E i \in 1..Len(s) : LowerHolds(s, i, sub)

\* fileFilter
FileFilter(file) ==
  /\ \E ext \in {ExtName(file.name)} : LowerFileTypes(ext)
  /\ FileTypes(file.mime)

\* limits.fileSize and the maxCount of upload.array
FileSizeLimit == 5 * 1024 * 1024
MaxCount == 10

\* the name diskStorage stores the file under
FileName(file) == file.suffix \o ExtName(file.name)

\* the file multer gives up on: beyond maxCount, refused by the filter, or
\* larger than the limit
Refused(files, k) ==
  \/ k > MaxCount
  \/ ~FileFilter(files[k])
  \/ files[k].size > FileSizeLimit

\* the index of the first file multer gives up on, 0 when it takes them all
RECURSIVE FirstRefused(_, _)
FirstRefused(files, from) ==
  The({IF k > Len(fs) THEN 0
       ELSE IF Refused(fs, k) THEN k
       ELSE FirstRefused(fs, k + 1) :
         fs \in {files}, k \in {from}})

\* the error multer passes to next(), which Express answers with status 500
UploadError(files, k) ==
  IF k > MaxCount THEN "Unexpected field"
  ELSE IF ~FileFilter(files[k]) THEN "Only images are allowed"
  ELSE "File too large"

\* the value of a key of a parsed object: the last member of that name
Get(obj, key) ==
  IF \E k \in 1..Len(obj.keys) : obj.keys[k] = key
    THEN obj.vals[CHOOSE k \in 1..Len(obj.keys) :
                    obj.keys[k] = key
                      /\ \A j \in (k + 1)..Len(obj.keys) : obj.keys[j] # key]
  ELSE Undef

\* req.files[index], undefined beyond the files that were uploaded
FileAt(files, k) == IF k <= Len(files) THEN files[k] ELSE Undef

\* the subdocument of an item of the parsed array after
\* `item.image = /uploads/<filename>` when a file came at its index
\* (an item that is no object cannot be cast to a subdocument)
UploadCastQuestion(item, file) ==
  IF item.t # "object"
    THEN [question |-> CastFailed, choices |-> <<>>, image |-> CastFailed]
  ELSE [question |-> CastString(Get(item, Text("question"))),
        choices |-> CastStringArray(Get(item, Text("choices"))),
        image |-> IF file = Undef THEN CastString(Get(item, Text("image")))
                  ELSE Text("/uploads/") \o FileName(file)]

UploadValidQuestion(q) ==
  /\ Required(q.question)
  /\ \A k \in 1..Len(q.choices) : Required(q.choices[k])
  /\ q.image # CastFailed

\* new Exam({..., exam: examArray}) on the parsed items
UploadExam(req, items, files) ==
  [division |-> CastString(req.division),
   level |-> CastString(req.level),
   term |-> CastString(req.term),
   subject |-> CastString(req.subject),
   year |-> CastString(req.year),
   exam |-> [k \in 1..Len(items) |-> UploadCastQuestion(items[k], FileAt(files, k))],
   v |-> 0]

\* the validation of save(): an item that is no object cannot be cast to a
\* subdocument
UploadValidDocument(doc, items) ==
  /\ \A k \in 1..Len(items) : items[k].t = "object"
  /\ \A f \in MetaFields : Required(doc[f])
  /\ \A k \in 1..Len(items) : UploadValidQuestion(doc.exam[k])

UploadFieldMissing(req) ==
  \/ ~Truthy(req.division)
  \/ ~Truthy(req.level)
  \/ ~Truthy(req.term)
  \/ ~Truthy(req.subject)
  \/ ~Truthy(req.year)
  \/ ~Truthy(req.exam)

\* req.files: undefined when the request was not multipart
FilesOf(req) == IF req.files = Undef THEN <<>> ELSE req.files.a

\* what the try block throws before `await newExam.save()` once JSON.parse
\* gave `parsed`, "" when it reaches save(): JSON.parse, .map on what it
\* gave, req.files[index] when req.files is undefined, item.image on a null
\* item
UploadThrows(req, parsed) ==
  IF ~parsed.ok THEN parsed.error
  ELSE IF parsed.v.t # "array" THEN "TypeError"
  ELSE IF req.files = Undef /\ Len(parsed.v.a) > 0 THEN "TypeError"
  ELSE IF \E k \in 1..Min(Len(parsed.v.a), Len(FilesOf(req))) :
            parsed.v.a[k].t = "null"
    THEN "TypeError"
  ELSE ""

\* the call of save() a handler is suspended on: the document and the items
\* it was built from
UploadSave(req, items) ==
  [doc |-> UploadExam(req, items, FilesOf(req)), items |-> items]

\* the handler, with what JSON.parse(exam) gives, up to
\* `await newExam.save()`
CreateExamUploadTry(c, req, parsed) ==
  /\ UNCHANGED <<store, nextId, answered>>
  /\ IF UploadFieldMissing(req)
       THEN Answer(c, Response("upload", 400, Message("All fields are required")))
     ELSE IF UploadThrows(req, parsed) # ""
       THEN Answer(c, Caught("upload", UploadThrows(req, parsed)))
     ELSE /\ UploadValidDocument(UploadSave(req, parsed.v.a).doc, parsed.v.a)
               => nextId <= MaxDocs
          /\ pending' = [pending EXCEPT ![c] =
               Calling("upload", UploadSave(req, parsed.v.a))]
          /\ last' = last

\* POST /exams (upload): multer passes a request that is not multipart on
\* to the handler at once, and reads the parts of one that is; a multipart
\* request is taken while the store has room for its document
CreateExamUploadCall(c, req) ==
  /\ pending[c] = Idle
  /\ IF req.files = Undef
       THEN \E parsed \in {JsonParse(req.exam)} : CreateExamUploadTry(c, req, parsed)
     ELSE /\ nextId <= MaxDocs
          /\ Suspend(c, "multer", req)

\* multer has read the parts: it passes the error of a file it gives up on
\* to next(), or calls the handler
CreateExamUploadFiles(c) ==
  /\ Suspended(c, "multer")
  /\ \E k \in {FirstRefused(FilesOf(pending[c].req), 1)} :
       IF k # 0
         THEN /\ Answer(c, Response("upload", 500,
                   Message(UploadError(FilesOf(pending[c].req), k))))
              /\ UNCHANGED <<store, nextId, answered>>
       ELSE \E parsed \in {JsonParse(pending[c].req.exam)} :
              CreateExamUploadTry(c, pending[c].req, parsed)

\* newExam.save(): the validation, which rejects with a ValidationError,
\* then the insert
CreateExamUploadInsert(c) ==
  /\ Suspended(c, "upload")
  /\ IF ~UploadValidDocument(pending[c].req.doc, pending[c].req.items)
       THEN Settle(c, Rejected("ValidationError"))
     ELSE /\ nextId <= MaxDocs
          /\ store' = Put(store, nextId, pending[c].req.doc)
          /\ nextId' = nextId + 1
          /\ pending' = [pending EXCEPT ![c] =
               Done("upload", pending[c].req, Document(nextId, pending[c].req.doc))]
          /\ UNCHANGED <<last, answered>>

CreateExamUploadAnswer(c) ==
  /\ Settled(c, "upload")
  /\ LET r == pending[c].result IN
     Answer(c, IF r.kind = "error" THEN Caught("upload", r.error)
               ELSE Response("upload", 201,
                             [message |-> "Exam created successfully", exam |-> Json(r)]))
  /\ UNCHANGED <<store, nextId, answered>>

\* a call that mongoose rejects without sending anything to the store: the
\* cast of an :id, the validation of save() and the update validators
Unsent(p) ==
  CASE p.op \in {"get", "delete"} -> p.req.id = MalformedId
    [] p.op = "update" -> p.req.id = MalformedId \/ ~ValidUpdate(p.req.body)
    [] p.op = "create" -> ~ValidDocument(NewExam(p.req))
    [] p.op = "append" -> ~ValidQuestion(Pushed(p.req))
    [] p.op = "upload" -> ~UploadValidDocument(p.req.doc, p.req.items)
    [] p.op = "remove" -> p.at = "save" /\ ~ValidDocument(p.doc)
    [] OTHER -> FALSE

\* The store rejects the call a handler is suspended on (connection lost,
\* server selection timed out): the call has no effect on the collection and
\* the handler resumes in its catch block.
StoreCallFails(c) ==
  /\ pending[c].at \in {"call", "save"}
  /\ pending[c].op # "multer"
  /\ ~Unsent(pending[c])
  /\ pending' = [pending EXCEPT ![c] =
       IF pending[c].at = "save" THEN Written(pending[c].req, Rejected(StoreError))
       ELSE IF pending[c].op = "remove" THEN Found(pending[c].req, Rejected(StoreError))
       ELSE Done(pending[c].op, pending[c].req, Rejected(StoreError))]
  /\ answered' = [answered EXCEPT !.failed = TRUE]
  /\ UNCHANGED <<store, nextId, last>>
(***************************************************************************)
(* The requests the clients send.                                          *)
(***************************************************************************)
Question(text, choices, image) ==
  [question |-> text, choices |-> choices, image |-> image]

\* the string value of a text, and the array of those of several
S(text) == Str(Text(text))
Strings(texts) == Arr([k \in 1..Len(texts) |-> S(texts[k])])

\* the empty string
EmptyString == Str(<<>>)

QA == Question(S("q1"), Strings(<<"a", "b">>), Undef)
QB == Question(S("q2"), Strings(<<"a", "b", "c">>), S("/uploads/1.png"))
QC == Question(S("q3"), Strings(<<"c", "d">>), Undef)
QSwapped == Question(S("q1"), Strings(<<"b", "a">>), Undef)
QOneChoice == Question(S("q4"), Strings(<<"a">>), Undef)
QNoChoices == Question(S("q4"), Undef, Undef)
QNoText == Question(S(""), Strings(<<"a", "b">>), Undef)

Meta(division) ==
  [division |-> S(division), level |-> S("1"), term |-> S("T1"),
   subject |-> S("Math"), year |-> S("2024")]

Metas == {Meta("A"), Meta("B")}

\* Meta("A") with one of the five fields absent or empty
BrokenMetas ==
  {[Meta("A") EXCEPT ![f] = x] : f \in MetaFields, x \in {Undef, S("")}}

With(meta, rest) ==
  [f \in (DOMAIN meta) \cup (DOMAIN rest) |->
     IF f \in DOMAIN rest THEN rest[f] ELSE meta[f]]

ExamInputs ==
  {Undef, S(""), Arr(<<>>), Arr(<<QA>>), Arr(<<QA, QB, QC>>),
   Arr(<<QA, QOneChoice>>), Arr(<<QNoChoices>>), Arr(<<QNoText>>)}

CreateRequests ==
  {With(m, [exam |-> e]) : m \in Metas, e \in ExamInputs}
    \cup {With(m, [exam |-> Arr(<<QA>>)]) : m \in BrokenMetas}

AppendRequests ==
  {With(m, [question |-> q, choices |-> ch]) :
     m \in Metas,
     q \in {Undef, S(""), S("q5")},
     ch \in {Undef, Arr(<<>>), Strings(<<"x">>), Strings(<<"x", "y">>)}}
    \cup {With(m, [question |-> S("q5"), choices |-> Strings(<<"x", "y">>)]) :
            m \in BrokenMetas}

\* white space of a numeric string beyond the blank: U+000B, U+00A0 and
\* U+2003
LineTab == <<11>>
NoBreakSpace == <<160>>
EmSpace == <<8195>>

\* objects as an index: one that ToPrimitive turns into "[object Object]",
\* and one whose member toString is no function
PlainObject == Obj(<<>>, <<>>)
NoToString == Obj(<<Text("toString")>>, <<Num(2)>>)

IndexInputs ==
  {Undef, Null, S("x"), S("1"), S("4"), S("-1"), S("1.5"), S(" 2 "),
   S("0x1"), S("1e0"), Bool(TRUE), Arr(<<>>), Arr(<<Num(2)>>),
   Str(LineTab \o Text("1")), Str(NoBreakSpace \o Text("2") \o EmSpace),
   Str(Text("3e-324")), PlainObject, NoToString, Arr(<<NoToString>>)}
    \cup {Num(2 * i) : i \in -1..(MaxQuestions + 1)}
    \cup {Num(-1), Num(1), Num(3)}

RemoveRequests ==
  {With(m, [index |-> i]) : m \in Metas, i \in IndexInputs}
    \cup {With(m, [index |-> Num(0)]) : m \in BrokenMetas}

NoBody ==
  [division |-> Undef, level |-> Undef, term |-> Undef, subject |-> Undef,
   year |-> Undef, exam |-> Undef]

UpdateBodies ==
  {NoBody,
   [NoBody EXCEPT !.division = S("B")],
   [NoBody EXCEPT !.division = S("")],
   [NoBody EXCEPT !.exam = Arr(<<QSwapped>>)],
   [NoBody EXCEPT !.exam = Arr(<<QOneChoice>>)]}

IdInputs == Ids \cup {MalformedId}


\* the files of a multipart request
Png == File(Text("a.PNG"), Text("image/png"), 1024, Text("17-42"))
Txt == File(Text("notes.txt"), Text("text/plain"), 10, Text("17-43"))
Huge == File(Text("b.jpg"), Text("image/jpeg"), FileSizeLimit + 1, Text("17-44"))

\* the `exam` field of a request to the upload handler, as JSON text
OneQuestion == Text("[{\"question\":\"q1\",\"choices\":[\"a\",\"b\"]}]")
\* white space between the tokens, a \u escape and a \b escape, a number
\* for the question and a string for the choices
LooseQuestion ==
  Text(" [ {\"choices\": \"a\\u4e2d\\b\", \"question\": 7, \"image\": \"x\"} ] ")
\* a number below the normal range of a double
Subnormal3 == Text("[3e-324]")
\* a control character as it is inside a string
RawControl == Text("[\"a") \o LineTab \o Text("\"]")

\* a request to the upload handler: a JSON body (req.files is undefined) or
\* a multipart body with its files
Upload(exam, files) == With(Meta("B"), [exam |-> exam, files |-> files])

UploadRequests ==
  {Upload(Arr(<<Obj(<<Text("question")>>, <<S("q1")>>)>>), Undef),
   Upload(NoToString, Undef),
   Upload(S("[]"), Undef),
   Upload(Str(OneQuestion), Undef),
   Upload(S("[null]"), Arr(<<Png>>)),
   Upload(Str(Subnormal3), Arr(<<>>)),
   Upload(S("[{\"question\":\"q1\",}]"), Arr(<<>>)),
   Upload(S(""), Arr(<<>>)),
   Upload(Undef, Arr(<<>>)),
   Upload(S("[]"), Arr(<<Png, Huge>>)),
   Upload(S("[]"), Arr([k \in 1..(MaxCount + 1) |-> Png]))}
(***************************************************************************)
(* The by-id routes, list and create-exam, from a JSON body and from an     *)
(* upload, on a collection that starts empty, one request at a time.       *)
(***************************************************************************)
Next ==
  \/ ListExamsCall("c1") \/ ListExamsFind("c1") \/ ListExamsAnswer("c1")
  \/ \E id \in IdInputs : GetExamCall("c1", id)
  \/ GetExamFind("c1") \/ GetExamAnswer("c1")
  \/ \E req \in CreateRequests : CreateExamCall("c1", req)
  \/ CreateExamInsert("c1") \/ CreateExamAnswer("c1")
  \/ \E req \in UploadRequests : CreateExamUploadCall("c1", req)
  \/ CreateExamUploadFiles("c1")
  \/ CreateExamUploadInsert("c1") \/ CreateExamUploadAnswer("c1")
  \/ \E id \in IdInputs, body \in UpdateBodies : UpdateExamCall("c1", id, body)
  \/ UpdateExamApply("c1") \/ UpdateExamAnswer("c1")
  \/ \E id \in IdInputs : DeleteExamCall("c1", id)
  \/ DeleteExamApply("c1") \/ DeleteExamAnswer("c1")

Spec == Init /\ [][Next]_vars

(***************************************************************************)
(* create-exam and add-question on a collection that starts empty, one     *)
(* request at a time.                                                      *)
(***************************************************************************)
SeedRequests ==
  {With(m, [exam |-> e]) :
     m \in Metas,
     e \in {Arr(<<QA>>), Arr(<<QA, QB, QC>>), Arr(<<QA, QOneChoice>>),
            Arr(<<QNoChoices>>)}}

NextAppend ==
  \/ \E req \in SeedRequests : CreateExamCall("c1", req)
  \/ CreateExamInsert("c1") \/ CreateExamAnswer("c1")
  \/ \E req \in AppendRequests : AppendQuestionCall("c1", req)
  \/ AppendQuestionApply("c1") \/ AppendQuestionAnswer("c1")

SpecAppend == Init /\ [][NextAppend]_vars

(***************************************************************************)
(* remove-question, one request at a time, on a collection that holds two  *)
(* exams when the service starts.  The second has a question of one choice *)
(* only: POST /exams of src/api/exams.js, whose schema has no rule on the  *)
(* number of choices, stores such a question in the same collection.       *)
(***************************************************************************)
StoredExam(division, questions) ==
  NewExam(With(Meta(division), [exam |-> Arr(questions)]))

InitRemove ==
  /\ store = <<StoredExam("A", <<QA, QB, QC>>), StoredExam("B", <<QA, QOneChoice>>)>>
  /\ nextId = 3
  /\ pending = [c \in Clients |-> Idle]
  /\ last = Response("none", 0, Message(""))
  /\ answered = NoneAnswered

RegrowRequests ==
  {With(Meta("A"), [question |-> S("q5"), choices |-> Strings(<<"x", "y">>)])}

NextRemove ==
  \/ \E req \in RemoveRequests : RemoveQuestionCall("c1", req)
  \/ RemoveQuestionFind("c1") \/ RemoveQuestionResume("c1")
  \/ RemoveQuestionWrite("c1") \/ RemoveQuestionAnswer("c1")
  \/ \E req \in RegrowRequests : AppendQuestionCall("c1", req)
  \/ AppendQuestionApply("c1") \/ AppendQuestionAnswer("c1")

SpecRemove == InitRemove /\ [][NextRemove]_vars

(***************************************************************************)
(* add-question requests in flight together, on a collection that holds    *)
(* one exam of one question when the service starts.                       *)
(***************************************************************************)
InitAppends ==
  /\ store = <<StoredExam("A", <<QA>>)>>
  /\ nextId = 2
  /\ pending = [c \in Clients |-> Idle]
  /\ last = Response("none", 0, Message(""))
  /\ answered = NoneAnswered

ConcurrentAppends ==
  {With(Meta("A"), [question |-> S(q), choices |-> Strings(<<"x", "y">>)]) :
     q \in {"q5", "q6"}}
    \cup {With(Meta("B"), [question |-> S("q5"), choices |-> Strings(<<"x", "y">>)]),
          With(Meta("A"), [question |-> S("q5"), choices |-> Strings(<<"x">>)]),
          With(Meta("A"), [question |-> Undef, choices |-> Strings(<<"x", "y">>)])}

NextAppends ==
  \/ \E c \in Clients, req \in ConcurrentAppends : AppendQuestionCall(c, req)
  \/ \E c \in Clients : AppendQuestionApply(c)
  \/ \E c \in Clients : AppendQuestionAnswer(c)

SpecAppends == InitAppends /\ [][NextAppends]_vars

(***************************************************************************)
(* Handlers of remove-question, add-question, the by-id routes and list in *)
(* flight together, on a collection that holds one exam when the service   *)
(* starts.                                                                 *)
(***************************************************************************)
InitRace ==
  /\ store = <<StoredExam("A", <<QA, QB>>)>>
  /\ nextId = 2
  /\ pending = [c \in Clients |-> Idle]
  /\ last = Response("none", 0, Message(""))
  /\ answered = NoneAnswered

RaceRemoves == {With(Meta("A"), [index |-> Num(2 * i)]) : i \in 0..1}

NextRace ==
  \/ \E c \in Clients, req \in RaceRemoves : RemoveQuestionCall(c, req)
  \/ \E c \in Clients : RemoveQuestionFind(c)
  \/ \E c \in Clients : RemoveQuestionResume(c)
  \/ \E c \in Clients : RemoveQuestionWrite(c)
  \/ \E c \in Clients : RemoveQuestionAnswer(c)
  \/ \E req \in RegrowRequests : AppendQuestionCall("c2", req)
  \/ AppendQuestionApply("c2") \/ AppendQuestionAnswer("c2")
  \/ DeleteExamCall("c2", 1) \/ DeleteExamApply("c2") \/ DeleteExamAnswer("c2")
  \/ GetExamCall("c1", 1) \/ GetExamFind("c1") \/ GetExamAnswer("c1")
  \/ ListExamsCall("c1") \/ ListExamsFind("c1") \/ ListExamsAnswer("c1")

SpecRace == InitRace /\ [][NextRace]_vars

(***************************************************************************)
(* Every route, with store calls that can be rejected, on a collection     *)
(* that holds one exam when the service starts.  The event loop resumes    *)
(* every suspended handler whose awaited call has settled; nothing is      *)
(* assumed of the store, which may leave a call unsettled.                 *)
(***************************************************************************)
\* the exam that is stored when the service starts
FaultIds == {1}

FaultCreates == {With(Meta("B"), [exam |-> Arr(<<QA>>)])}

FaultRemoves == {With(Meta("A"), [index |-> Num(0)])}

FaultUpdates == {[NoBody EXCEPT !.division = S("B")]}

\* uploads that end in each way: stored, a TypeError, a ValidationError, a
\* SyntaxError and a file multer refuses
FaultUploads ==
  {Upload(Num(2), Undef),
   Upload(NoToString, Undef),
   Upload(Str(LooseQuestion), Arr(<<Png>>)),
   Upload(S("[1]"), Arr(<<>>)),
   Upload(Str(RawControl), Arr(<<>>)),
   Upload(S("[]"), Arr(<<Txt>>))}

\* the steps of mongoose, the store and multer that settle the call a
\* handler is suspended on, with its result or with a rejection
Settles(c) ==
  \/ ListExamsFind(c)
  \/ GetExamFind(c)
  \/ CreateExamInsert(c)
  \/ CreateExamUploadFiles(c)
  \/ CreateExamUploadInsert(c)
  \/ AppendQuestionApply(c)
  \/ RemoveQuestionFind(c)
  \/ RemoveQuestionWrite(c)
  \/ UpdateExamApply(c)
  \/ DeleteExamApply(c)
  \/ StoreCallFails(c)

\* the steps in which the event loop resumes a handler after its await
Resumes(c) ==
  \/ ListExamsAnswer(c)
  \/ GetExamAnswer(c)
  \/ CreateExamAnswer(c)
  \/ CreateExamUploadAnswer(c)
  \/ AppendQuestionAnswer(c)
  \/ RemoveQuestionResume(c)
  \/ RemoveQuestionAnswer(c)
  \/ UpdateExamAnswer(c)
  \/ DeleteExamAnswer(c)

NextFaults ==
  \/ ListExamsCall("c1")
  \/ \E id \in FaultIds : GetExamCall("c1", id)
  \/ \E req \in FaultCreates : CreateExamCall("c1", req)
  \/ \E req \in FaultUploads : CreateExamUploadCall("c1", req)
  \/ \E req \in RegrowRequests : AppendQuestionCall("c1", req)
  \/ \E req \in FaultRemoves : RemoveQuestionCall("c1", req)
  \/ \E id \in FaultIds, body \in FaultUpdates : UpdateExamCall("c1", id, body)
  \/ \E id \in FaultIds : DeleteExamCall("c1", id)
  \/ Settles("c1")
  \/ Resumes("c1")

SpecFaults == InitRace /\ [][NextFaults]_vars /\ WF_vars(Resumes("c1"))

(***************************************************************************)
(* Vocabulary of the properties.                                           *)
(***************************************************************************)
\* a request field that is there and is not the empty string
Present(v) == v # Undef /\ v # Null /\ v # EmptyString

MetaPresent(req) == \A f \in MetaFields : Present(req[f])

\* the document carries the five metadata values of the request
SameMeta(doc, req) == \A f \in MetaFields : doc[f] = req[f].s

\* id is the first document, in the store's order, with the request's metadata
IsFirstSameMeta(docs, id, req) ==
  /\ id \in DOMAIN docs
  /\ SameMeta(docs[id], req)
  /\ \A j \in DOMAIN docs : SameMeta(docs[j], req) => id <= j

NoSameMeta(docs, req) == \A j \in DOMAIN docs : ~SameMeta(docs[j], req)

\* every document but id is what it was
OthersUnchanged(id) ==
  /\ DOMAIN store' = DOMAIN store
  /\ \A j \in (DOMAIN store) \ {id} : store'[j] = store[j]

\* only the questions of document id may differ
OnlyExamChanged(id) ==
  /\ OthersUnchanged(id)
  /\ \A f \in MetaFields : store'[id][f] = store[id][f]

\* the index is the number i, a position of an array of length n
IsPosition(index, n) ==
  /\ index.t = "number"
  /\ index.twice % 2 = 0
  /\ 0 <= index.twice
  /\ index.twice < 2 * n

\* new is old without its element at 0-based position i
RemovedAt(old, new, i) ==
  /\ Len(new) = Len(old) - 1
  /\ \A k \in 0..(i - 1) : new[k + 1] = old[k + 1]
  /\ \A k \in (i + 1)..(Len(old) - 1) : new[k] = old[k + 1]

\* the handler in slot c answers in this step
Answers(c, status) ==
  /\ pending'[c] = Idle
  /\ last'.op = pending[c].op
  /\ last'.status = status

\* no handler is suspended
Quiescent == \A c \in Clients : pending[c] = Idle

(***************************************************************************)
(* C1.  In remove-question, when findOne gave an exam and the index i is a *)
(* position of it (0 <= i < n, i = 0 included), the handler goes on to     *)
(* save() with the exam's questions minus the one at i: those before i     *)
(* keep their positions, those after i move down by one in the same order. *)
(* findOne gives the first stored exam with the request's metadata.  When  *)
(* the questions that are left satisfy the schema, the write of save() on  *)
(* an exam that was not written since stores exactly that sequence in that *)
(* exam and changes nothing else, and the request is answered 200 with it. *)
(* When one of them does not, save() is rejected with a ValidationError,   *)
(* the exam keeps its n questions and the request is answered 500.         *)
(***************************************************************************)
C1_FindStep ==
  \A id \in DOMAIN store :
    ( /\ Suspended("c1", "remove")
      /\ MetaPresent(pending["c1"].req)
      /\ IsFirstSameMeta(store, id, pending["c1"].req)
      /\ RemoveQuestionFind("c1") )
    => /\ pending'["c1"].at = "found"
       /\ pending'["c1"].result = Document(id, store[id])
       /\ store' = store

C1_ResumeStep ==
  ( /\ pending["c1"].at = "found"
    /\ pending["c1"].result.kind = "doc"
    /\ IsPosition(pending["c1"].req.index, Len(pending["c1"].result.doc.exam))
    /\ RemoveQuestionResume("c1") )
  => /\ pending'["c1"].at = "save"
     /\ pending'["c1"].id = pending["c1"].result.id
     /\ pending'["c1"].req = pending["c1"].req
     /\ RemovedAt(pending["c1"].result.doc.exam, pending'["c1"].doc.exam,
                  pending["c1"].req.index.twice \div 2)
     /\ store' = store
     /\ last' = last

\* every question of the sequence has a text and two choices or more
SchemaHolds(exam) ==
  \A k \in 1..Len(exam) :
    /\ exam[k].question \notin {Absent, <<>>}
    /\ Len(exam[k].choices) >= 2

\* the write of save() after the removal at a position, on an exam that
\* was not written since the read
C1_Unwritten ==
  /\ pending["c1"].at = "save"
  /\ IsPosition(pending["c1"].req.index, Len(pending["c1"].doc.exam) + 1)
  /\ pending["c1"].id \in DOMAIN store
  /\ store[pending["c1"].id].v = pending["c1"].doc.v
  /\ RemoveQuestionWrite("c1")

C1_Stored ==
  LET p == pending["c1"] IN
  /\ store'[p.id].exam = p.doc.exam
  /\ OnlyExamChanged(p.id)
  /\ pending'["c1"].at = "saved"
  /\ pending'["c1"].req = p.req
  /\ pending'["c1"].result.kind = "doc"
  /\ pending'["c1"].result.doc.exam = p.doc.exam

C1_WriteStep ==
  (C1_Unwritten /\ SchemaHolds(pending["c1"].doc.exam)) => C1_Stored

C1_RefusedStep ==
  (C1_Unwritten /\ ~SchemaHolds(pending["c1"].doc.exam))
    => /\ pending'["c1"].at = "saved"
       /\ pending'["c1"].result = Rejected("ValidationError")
       /\ store' = store

C1_AnswerStep ==
  (pending["c1"].at = "saved" /\ RemoveQuestionAnswer("c1"))
    => /\ store' = store
       /\ IF pending["c1"].result.kind = "doc"
            THEN /\ Answers("c1", 200)
                 /\ last'.body.message = "Question removed successfully"
                 /\ last'.body.exam.id = pending["c1"].result.id
                 /\ last'.body.exam.doc.exam = pending["c1"].result.doc.exam
                 /\ answered'.remove = answered.remove + 1
          ELSE /\ Answers("c1", 500)
               /\ answered' = answered

C1_RemoveShiftsDown ==
  [][/\ C1_FindStep
     /\ C1_ResumeStep
     /\ C1_WriteStep
     /\ C1_RefusedStep
     /\ C1_AnswerStep]_vars

\* save() has settled for the request that removes index 0 of the
\* three-question exam: the exam holds the former elements 1, 2 at
\* positions 0, 1, and the handler resumes with that document, which it
\* answers 200
C1_Witness ==
  /\ pending["c1"].at = "saved"
  /\ pending["c1"].req = With(Meta("A"), [index |-> Num(0)])
  /\ pending["c1"].result.kind = "doc"
  /\ pending["c1"].result.id = 1
  /\ pending["c1"].result.doc.exam = CastExam(Arr(<<QB, QC>>))
  /\ ENABLED (RemoveQuestionAnswer("c1") /\ last'.status = 200)
  /\ store[1].v = 1
  /\ store[1].exam = CastExam(Arr(<<QB, QC>>))
  /\ answered.remove = 0

\* the claim as it was stated: for every exam, the write of save() after
\* the removal at a position stores the sequence
C1_Original == [][C1_Unwritten => C1_Stored]_vars

(***************************************************************************)
(* C2.  A remove-question request that matches an exam and whose index is  *)
(* negative, or greater than or equal to the number of questions, is       *)
(* answered 400 "Invalid question index" and starts no write-back; the     *)
(* write-back of a request whose index is no position in [0, length)       *)
(* leaves every stored document as it was.  A number, or a string that is  *)
(* a numeric literal, counts as a position when its value is an integer of *)
(* [0, length).                                                            *)
(***************************************************************************)
IntegerValued(x) ==
  /\ ~x.nan
  /\ x.inf = 0
  /\ (x.m = 0 \/ x.e >= 0 \/ (-x.e <= 9 /\ x.m % Pow10(-x.e) = 0))

DenotesPosition(index, n) ==
  /\ index.t \in {"number", "string"}
  /\ index.t = "string" => TrimStart(index.s) # <<>>
  /\ IntegerValued(ToNumber(index))
  /\ ToInteger(index) \in 0..(n - 1)

\* the index is a number, or a string that is a numeric literal, of a value
\* below 0 or not below n
OutOfRange(index, n) ==
  /\ index.t \in {"number", "double", "string"}
  /\ index.t = "string" => TrimStart(index.s) # <<>>
  /\ ~ToNumber(index).nan
  /\ NumberLess(ToNumber(index), 0) \/ ~NumberLess(ToNumber(index), n)

C2_ResumeStep ==
  ( /\ pending["c1"].at = "found"
    /\ pending["c1"].result.kind = "doc"
    /\ OutOfRange(pending["c1"].req.index, Len(pending["c1"].result.doc.exam))
    /\ RemoveQuestionResume("c1") )
  => /\ Answers("c1", 400)
     /\ last'.body = Message("Invalid question index")
     /\ store' = store

C2_WriteStep ==
  ( /\ pending["c1"].at = "save"
    /\ pending["c1"].id \in DOMAIN store
    /\ ~DenotesPosition(pending["c1"].req.index,
                        Len(store[pending["c1"].id].exam))
    /\ RemoveQuestionWrite("c1") )
  => store' = store

C2_InvalidIndexRejected == [][C2_ResumeStep /\ C2_WriteStep]_vars

(***************************************************************************)
(* C3.  A create-exam request in which one of division, level, term,       *)
(* subject, year, exam is missing or empty (an absent field, an empty      *)
(* string, an empty question list) is answered 400 before any store call   *)
(* and the stored documents are what they were.                            *)
(***************************************************************************)
MissingOrEmpty(v) == v = Undef \/ v = Null \/ v = EmptyString \/ v = Arr(<<>>)

C3_CallStep ==
  \A req \in CreateRequests :
    ( /\ \E f \in MetaFields \cup {"exam"} : MissingOrEmpty(req[f])
      /\ CreateExamCall("c1", req) )
    => /\ last'.op = "create"
       /\ last'.status = 400
       /\ pending' = pending
       /\ store' = store

C3_MissingFieldRejected == [][C3_CallStep]_vars

(***************************************************************************)
(* C4.  A create-exam request carrying the five metadata fields and a      *)
(* non-empty question list in which every question has a non-empty text    *)
(* and at least two choices suspends on save(), whose insert adds          *)
(* exactly one document, under an identifier no document has or had,       *)
(* holding the submitted metadata and the submitted questions in the       *)
(* submitted order, and is answered 201; a document changes only by an     *)
(* update or a delete of its identifier, and get-exam is answered 200 with *)
(* the document its findById found under the identifier.                   *)
(***************************************************************************)
\* the choices-count rule of the data model
TwoChoices(q) == q.choices.t = "array" /\ Len(q.choices.a) >= 2

HasText(q) == q.question.t = "string" /\ q.question.s # <<>>

\* the stored question holds what was submitted
SameQuestion(stored, q) ==
  /\ stored.question = q.question.s
  /\ stored.choices = [k \in 1..Len(q.choices.a) |-> q.choices.a[k].s]
  /\ stored.image = (IF q.image = Undef THEN Absent ELSE q.image.s)

SameQuestions(exam, submitted) ==
  /\ Len(exam) = Len(submitted)
  /\ \A k \in 1..Len(submitted) : SameQuestion(exam[k], submitted[k])

WellFormedQuestion(q) == HasText(q) /\ TwoChoices(q)

\* at least one question, and each satisfies the choices-count rule
TwoChoicesList(req) ==
  /\ req.exam.t = "array"
  /\ Len(req.exam.a) >= 1
  /\ \A k \in 1..Len(req.exam.a) : TwoChoices(req.exam.a[k])

\* at least one question, and each has a text and satisfies the rule
WellFormedList(req) ==
  /\ TwoChoicesList(req)
  /\ \A k \in 1..Len(req.exam.a) : HasText(req.exam.a[k])

Created(req) ==
  /\ nextId \notin DOMAIN store
  /\ nextId' > nextId
  /\ DOMAIN store' = (DOMAIN store) \cup {nextId}
  /\ \A j \in DOMAIN store : store'[j] = store[j]
  /\ SameMeta(store'[nextId], req)
  /\ SameQuestions(store'[nextId].exam, req.exam.a)

\* the requests with the five metadata fields and a well-formed list
WellFormedRequests ==
  {req \in CreateRequests : MetaPresent(req) /\ WellFormedList(req)}

C4_CallStep ==
  \A req \in WellFormedRequests :
    CreateExamCall("c1", req)
    => /\ pending'["c1"] = Calling("create", req)
       /\ store' = store
       /\ last' = last

C4_InsertStep ==
  ( /\ Suspended("c1", "create")
    /\ MetaPresent(pending["c1"].req)
    /\ WellFormedList(pending["c1"].req)
    /\ CreateExamInsert("c1") )
    => /\ Created(pending["c1"].req)
       /\ pending'["c1"].at = "done"
       /\ pending'["c1"].result.kind = "doc"

C4_AnswerStep ==
  ( /\ Settled("c1", "create")
    /\ pending["c1"].result.kind = "doc"
    /\ CreateExamAnswer("c1") )
  => /\ Answers("c1", 201)
     /\ store' = store

C4_GetStep ==
  /\ \A id \in DOMAIN store :
       ( /\ Suspended("c1", "get")
         /\ pending["c1"].req.id = id
         /\ GetExamFind("c1") )
       => pending'["c1"].result = Document(id, store[id])
  /\ ( /\ Settled("c1", "get")
       /\ pending["c1"].result.kind = "doc"
       /\ GetExamAnswer("c1") )
     => /\ Answers("c1", 200)
        /\ last'.body = [id |-> pending["c1"].result.id,
                         doc |-> pending["c1"].result.doc]

C4_ChangeStep ==
  \A id \in DOMAIN store :
    (id \notin DOMAIN store' \/ store'[id] # store[id])
      => /\ pending["c1"].at = "call"
         /\ pending["c1"].op \in {"update", "delete"}
         /\ pending["c1"].req.id = id

\* identifiers are handed out once: every stored identifier is below nextId
C4_Fresh == \A id \in DOMAIN store : id < nextId

C4_CreateThenGet ==
  /\ [](C4_Fresh)
  /\ [][C4_CallStep /\ C4_InsertStep /\ C4_AnswerStep /\ C4_GetStep
          /\ C4_ChangeStep]_vars

\* get-exam returned the three submitted questions, image included, in order
C4_Witness ==
  /\ last.op = "get"
  /\ last.status = 200
  /\ last.body.doc.division = Text("B")
  /\ SameQuestions(last.body.doc.exam, <<QA, QB, QC>>)

\* the claim as it was stated: the choices-count rule alone decides
C4_Original ==
  [][( /\ Suspended("c1", "create")
       /\ MetaPresent(pending["c1"].req)
       /\ TwoChoicesList(pending["c1"].req)
       /\ CreateExamInsert("c1") )
     => /\ Created(pending["c1"].req)
        /\ pending'["c1"].result.kind = "doc"]_vars

(***************************************************************************)
(* C5.  The findOneAndUpdate of an append-question request that finds an   *)
(* exam changes exactly one stored exam, the first one in the store's      *)
(* order among those that carry the request's five metadata values: the    *)
(* submitted question and choices become its last question, the questions  *)
(* it had keep their positions, and every other exam is what it was; the   *)
(* request is answered 200 with the exam as the update left it.            *)
(***************************************************************************)
AppendedTo(id, req) ==
  /\ Len(store'[id].exam) = Len(store[id].exam) + 1
  /\ \A k \in 1..Len(store[id].exam) : store'[id].exam[k] = store[id].exam[k]
  /\ SameQuestion(store'[id].exam[Len(store'[id].exam)],
                  Question(req.question, req.choices, Undef))
  /\ OnlyExamChanged(id)

C5_ApplyStep ==
  \A c \in Clients :
    ( /\ Suspended(c, "append")
      /\ AppendQuestionApply(c)
      /\ pending'[c].result.kind = "doc" )
    => \E id \in DOMAIN store :
         /\ IsFirstSameMeta(store, id, pending[c].req)
         /\ AppendedTo(id, pending[c].req)
         /\ pending'[c].result = Document(id, store'[id])

C5_AnswerStep ==
  \A c \in Clients :
    ( /\ Settled(c, "append")
      /\ pending[c].result.kind = "doc"
      /\ AppendQuestionAnswer(c) )
    => /\ Answers(c, 200)
       /\ last'.body =
            [message |-> "Question added successfully",
             updatedExam |-> [id |-> pending[c].result.id,
                              doc |-> pending[c].result.doc]]
       /\ store' = store

C5_AppendToFirstMatch == [][C5_ApplyStep /\ C5_AnswerStep]_vars

\* two exams carry the same metadata; the question went to the first only
C5_Witness ==
  /\ last.op = "append"
  /\ last.status = 200
  /\ DOMAIN store = {1, 2}
  /\ \A f \in MetaFields : store[1][f] = store[2][f]
  /\ SameQuestions(store[1].exam,
                   <<QA, Question(S("q5"), Strings(<<"x", "y">>), Undef)>>)
  /\ SameQuestions(store[2].exam, <<QA>>)

(***************************************************************************)
(* C6.  An append-question request with every field present and a          *)
(* metadata tuple that no stored exam carries: with at least two choices   *)
(* its findOneAndUpdate finds nothing, writes nothing, and the request is  *)
(* answered 404; with fewer than two choices its findOneAndUpdate is       *)
(* rejected by the validation, which precedes the lookup, and the request  *)
(* is answered 500.  Either way no document is created and every stored    *)
(* document is what it was.                                                *)
(***************************************************************************)
AppendPresent(req) ==
  MetaPresent(req) /\ Present(req.question) /\ Present(req.choices)

C6_CallStep ==
  \A req \in AppendRequests :
    ( /\ AppendPresent(req)
      /\ NoSameMeta(store, req)
      /\ AppendQuestionCall("c1", req) )
    => /\ store' = store
       /\ pending'["c1"] = Calling("append", req)
       /\ last' = last

C6_ApplyStep ==
  ( /\ Suspended("c1", "append")
    /\ NoSameMeta(store, pending["c1"].req)
    /\ AppendQuestionApply("c1") )
  => /\ pending'["c1"].result =
          (IF Len(pending["c1"].req.choices.a) >= 2 THEN NoDocument
           ELSE Rejected("ValidationError"))
     /\ store' = store
     /\ nextId' = nextId

C6_AnswerStep ==
  ( /\ Settled("c1", "append")
    /\ pending["c1"].result.kind # "doc"
    /\ AppendQuestionAnswer("c1") )
  => /\ Answers("c1", IF pending["c1"].result.kind = "none" THEN 404 ELSE 500)
     /\ store' = store

C6_NoMatchNoUpsert == [][C6_CallStep /\ C6_ApplyStep /\ C6_AnswerStep]_vars

\* only an exam of division A is stored and an add-question got 404
C6_Witness ==
  /\ last.op = "append"
  /\ last.status = 404
  /\ DOMAIN store # {}
  /\ \A id \in DOMAIN store : store[id].division = Text("A")
  /\ Quiescent

\* the claim as it was stated: 404 whatever the choices are
C6_Original ==
  [][( /\ Suspended("c1", "append")
       /\ NoSameMeta(store, pending["c1"].req)
       /\ AppendQuestionApply("c1") )
     => /\ pending'["c1"].result = NoDocument
        /\ store' = store]_vars

(***************************************************************************)
(* C7.  An append-question request that matches a stored exam and carries  *)
(* a choices array of length 0 or 1 has its findOneAndUpdate rejected by   *)
(* the validation, nothing is written, and it is answered with an error    *)
(* status (400 or 500) whose cause is the validation; and in every state   *)
(* reached by create and append requests every question of every stored    *)
(* exam has at least two choices.                                          *)
(***************************************************************************)
C7_ApplyStep ==
  ( /\ Suspended("c1", "append")
    /\ ~NoSameMeta(store, pending["c1"].req)
    /\ Len(pending["c1"].req.choices.a) < 2
    /\ AppendQuestionApply("c1") )
  => /\ pending'["c1"].result = Rejected("ValidationError")
     /\ store' = store

C7_AnswerStep ==
  ( /\ Settled("c1", "append")
    /\ pending["c1"].result = Rejected("ValidationError")
    /\ AppendQuestionAnswer("c1") )
  => /\ Answers("c1", last'.status)
     /\ last'.status \in {400, 500}
     /\ last'.body.error = "ValidationError"
     /\ store' = store

C7_AllTwoChoices ==
  \A id \in DOMAIN store :
    \A k \in 1..Len(store[id].exam) : Len(store[id].exam[k].choices) >= 2

C7_ChoicesEnforced ==
  [](C7_AllTwoChoices) /\ [][C7_ApplyStep /\ C7_AnswerStep]_vars

\* an add-question was refused by the validation while the exams of both
\* divisions the requests name are stored
C7_Witness ==
  /\ last.op = "append"
  /\ last.status = 500
  /\ last.body.error = "ValidationError"
  /\ \E id \in DOMAIN store : store[id].division = Text("A")
  /\ \E id \in DOMAIN store : store[id].division = Text("B")

(***************************************************************************)
(* C8.  The findByIdAndDelete of a stored identifier removes exactly that  *)
(* document and the request is answered 204; of an identifier that is not  *)
(* stored it changes nothing and the request is answered 404; an           *)
(* identifier that was deleted is never stored again and the store calls   *)
(* of get, update and delete find no document under it.                    *)
(***************************************************************************)
Deleted(id) == id < nextId /\ id \notin DOMAIN store

C8_ApplyStep ==
  \A id \in Ids :
    ( /\ Suspended("c1", "delete")
      /\ pending["c1"].req.id = id
      /\ DeleteExamApply("c1") )
    => IF id \in DOMAIN store
         THEN /\ pending'["c1"].result.kind = "doc"
              /\ DOMAIN store' = (DOMAIN store) \ {id}
              /\ \A j \in DOMAIN store' : store'[j] = store[j]
       ELSE /\ pending'["c1"].result = NoDocument
            /\ store' = store

C8_AnswerStep ==
  /\ ( /\ Settled("c1", "delete")
       /\ pending["c1"].result.kind # "error"
       /\ DeleteExamAnswer("c1") )
       => /\ Answers("c1", IF pending["c1"].result.kind = "doc" THEN 204 ELSE 404)
          /\ store' = store
  /\ ( /\ pending["c1"].at = "done"
       /\ pending["c1"].op \in {"get", "update"}
       /\ pending["c1"].result.kind = "none"
       /\ (GetExamAnswer("c1") \/ UpdateExamAnswer("c1")) )
     => Answers("c1", 404)

C8_GoneStep ==
  \A id \in Ids :
    Deleted(id)
      => /\ Deleted(id)'
         /\ ( /\ pending["c1"].at = "call"
              /\ pending["c1"].op \in {"get", "update", "delete"}
              /\ pending["c1"].req.id = id
              /\ pending'["c1"].at = "done" )
            => (pending'["c1"].result.kind # "doc" /\ store' = store)

C8_DeleteTwice == [][C8_ApplyStep /\ C8_AnswerStep /\ C8_GoneStep]_vars

\* both identifiers were handed out, one exam is left, and the last request,
\* a delete, was answered 404
C8_Witness ==
  /\ last.op = "delete"
  /\ last.status = 404
  /\ nextId = MaxDocs + 1
  /\ Cardinality(DOMAIN store) = MaxDocs - 1
  /\ Quiescent

(***************************************************************************)
(* C9.  update-exam of a stored identifier with a body that passes the     *)
(* validation (named metadata fields non-empty, named questions with a     *)
(* text and at least two choices) is answered 200 with the updated         *)
(* document: the questions and choices are exactly the submitted ones, the *)
(* identifier is the same, the metadata fields the body does not name are  *)
(* untouched, and get-exam finds that document.  update-exam of a          *)
(* well-formed identifier creates no document; when the identifier is not  *)
(* stored it is answered 404 if the body passes the validation; a body     *)
(* that does not pass it is rejected by findByIdAndUpdate with nothing     *)
(* written, and answered 400.                                              *)
(***************************************************************************)
BodyPasses(body) ==
  /\ \A f \in MetaFields : body[f] # Undef => Present(body[f])
  /\ body.exam # Undef =>
       /\ body.exam.t = "array"
       /\ \A k \in 1..Len(body.exam.a) : WellFormedQuestion(body.exam.a[k])

C9_CallStep ==
  \A id \in Ids, body \in UpdateBodies :
    UpdateExamCall("c1", id, body)
      => /\ store' = store
         /\ pending'["c1"] = Calling("update", [id |-> id, body |-> body])
         /\ last' = last

C9_ApplyStep ==
  ( /\ Suspended("c1", "update")
    /\ pending["c1"].req.id \in Ids
    /\ UpdateExamApply("c1") )
    => LET id == pending["c1"].req.id
           body == pending["c1"].req.body
       IN IF ~BodyPasses(body)
            THEN /\ pending'["c1"].result = Rejected("ValidationError")
                 /\ store' = store
                 /\ nextId' = nextId
          ELSE IF id \in DOMAIN store
            THEN /\ pending'["c1"].result = Document(id, store'[id])
                 /\ OthersUnchanged(id)
                 /\ body.exam # Undef => SameQuestions(store'[id].exam, body.exam.a)
                 /\ body.exam = Undef => store'[id].exam = store[id].exam
                 /\ \A f \in MetaFields :
                      store'[id][f] =
                        (IF body[f] = Undef THEN store[id][f] ELSE body[f].s)
          ELSE /\ pending'["c1"].result = NoDocument
               /\ store' = store
               /\ nextId' = nextId

C9_AnswerStep ==
  ( /\ Settled("c1", "update")
    /\ pending["c1"].req.id \in Ids
    /\ UpdateExamAnswer("c1") )
    => /\ store' = store
       /\ IF pending["c1"].result.kind = "doc"
            THEN /\ Answers("c1", 200)
                 /\ last'.body = [id |-> pending["c1"].result.id,
                                  doc |-> pending["c1"].result.doc]
          ELSE Answers("c1", IF pending["c1"].result.kind = "none" THEN 404
                             ELSE 400)

C9_GetStep ==
  \A id \in DOMAIN store :
    ( /\ Suspended("c1", "get")
      /\ pending["c1"].req.id = id
      /\ GetExamFind("c1") )
    => /\ pending'["c1"].result.kind = "doc"
       /\ pending'["c1"].result.id = id
       /\ pending'["c1"].result.doc.exam = store[id].exam
       /\ \A f \in MetaFields : pending'["c1"].result.doc[f] = store[id][f]

C9_UpdateRoundTrip ==
  [][C9_CallStep /\ C9_ApplyStep /\ C9_AnswerStep /\ C9_GetStep]_vars

\* get-exam shows the replaced choices under the identifier and the
\* division the exam was created with
C9_Witness ==
  /\ last.op = "get"
  /\ last.status = 200
  /\ last.body.id = 2
  /\ last.body.doc.division = Text("B")
  /\ SameQuestions(last.body.doc.exam, <<QSwapped>>)

\* the claim as it was stated: 404 for every update of an absent identifier
C9_Original ==
  [][( /\ Suspended("c1", "update")
       /\ pending["c1"].req.id \in Ids \ DOMAIN store
       /\ UpdateExamApply("c1") )
     => /\ pending'["c1"].result = NoDocument
        /\ store' = store]_vars

(***************************************************************************)
(* C10.  remove-question reads the exam and writes it back in two store    *)
(* calls.  An add-question that commits in between leaves the version key  *)
(* alone, so the write-back is accepted, is answered 200 and replaces the  *)
(* questions by the sequence computed from the stale read: the appended    *)
(* question is lost although both requests were answered 200.  A second    *)
(* remove-question that commits in between advances the version key, so    *)
(* the write-back is refused: it is answered 500 and the store is what it  *)
(* was.                                                                    *)
(***************************************************************************)
C10_WriteStep ==
  \A c \in Clients :
    (pending[c].at = "save" /\ ValidDocument(pending[c].doc) /\ RemoveQuestionWrite(c))
      => LET p == pending[c] IN
         IF p.id \in DOMAIN store /\ store[p.id].v = p.doc.v
           THEN /\ pending'[c].result.kind = "doc"
                /\ store'[p.id].exam = p.doc.exam
                /\ store'[p.id].v = store[p.id].v + 1
                /\ OnlyExamChanged(p.id)
         ELSE /\ pending'[c].result = Rejected("VersionError")
              /\ store' = store

C10_AnswerStep ==
  \A c \in Clients :
    (pending[c].at = "saved" /\ RemoveQuestionAnswer(c))
      => /\ Answers(c, IF pending[c].result.kind = "doc" THEN 200 ELSE 500)
         /\ store' = store

C10_AppendStep ==
  (Suspended("c2", "append") /\ AppendQuestionApply("c2"))
    => \A id \in DOMAIN store : store'[id].v = store[id].v

C10_LostUpdate == [][C10_WriteStep /\ C10_AnswerStep /\ C10_AppendStep]_vars

\* one add-question and one remove-question were answered 200 on the
\* two-question exam, and it holds one question: the appended one is gone
C10_Witness ==
  /\ answered.append = 1
  /\ answered.remove = 1
  /\ last.op = "remove"
  /\ last.status = 200
  /\ 1 \in DOMAIN store
  /\ Len(store[1].exam) = 1
  /\ Quiescent

\* the claim as it was stated: whatever committed in between, the write-back
\* goes through with the stale sequence
C10_Original ==
  [][\A c \in Clients :
       ( /\ pending[c].at = "save"
         /\ pending[c].id \in DOMAIN store
         /\ RemoveQuestionWrite(c) )
       => /\ pending'[c].result.kind = "doc"
          /\ store'[pending[c].id].exam = pending[c].doc.exam]_vars

(***************************************************************************)
(* C11.  Each add-question is one store update: with any number of         *)
(* add-question requests in flight together, the update of one of them     *)
(* puts its question after every question the matched exam holds at that   *)
(* moment and changes nothing else, no other step of a handler touches the *)
(* store, and once every request has been answered the exam holds the      *)
(* questions it started with followed by the question of every request     *)
(* answered 200, each as many times as it was answered 200.                *)
(***************************************************************************)
Count(seq, x) == Cardinality({k \in 1..Len(seq) : seq[k] = x})

\* what the exam held when the service started
Seeded == StoredExam("A", <<QA>>).exam

C11_ApplyStep ==
  \A c \in Clients :
    ( /\ Suspended(c, "append")
      /\ AppendQuestionApply(c)
      /\ pending'[c].result.kind = "doc" )
    => \E id \in DOMAIN store :
         /\ IsFirstSameMeta(store, id, pending[c].req)
         /\ Len(store'[id].exam) = Len(store[id].exam) + 1
         /\ SubSeq(store'[id].exam, 1, Len(store[id].exam)) = store[id].exam
         /\ store'[id].exam[Len(store'[id].exam)] = Pushed(pending[c].req)
         /\ OnlyExamChanged(id)
         /\ pending'[c].result.doc = store'[id]

C11_OtherStep ==
  (\A c \in Clients : ~(Suspended(c, "append") /\ pending'[c].at = "done"))
    => store' = store

C11_AnswerStep ==
  \A c \in Clients :
    (Settled(c, "append") /\ AppendQuestionAnswer(c))
      => (pending[c].result.kind = "doc")
           = (last'.status = 200 /\ answered'.append = answered.append + 1)

C11_AllAppended ==
  Quiescent
    => /\ Len(store[1].exam) = Len(Seeded) + answered.append
       /\ SubSeq(store[1].exam, 1, Len(Seeded)) = Seeded
       /\ \A req \in ConcurrentAppends :
            Count(SubSeq(store[1].exam, Len(Seeded) + 1, Len(store[1].exam)),
                  Pushed(req))
              = Count(answered.pushed, Pushed(req))

C11_NoAppendLost ==
  [](C11_AllAppended) /\ [][C11_ApplyStep /\ C11_OtherStep /\ C11_AnswerStep]_vars

\* the same question was sent twice and both updates went through; the
\* handler whose update came second has answered 200 with three questions
\* while the one whose update came first is still suspended
C11_Witness ==
  /\ last.op = "append"
  /\ last.status = 200
  /\ Len(last.body.updatedExam.doc.exam) = 3
  /\ answered.append = 1
  /\ \E c \in Clients :
       /\ Settled(c, "append")
       /\ pending[c].result.kind = "doc"
       /\ Len(pending[c].result.doc.exam) = 2
  /\ Len(store[1].exam) = 3
  /\ store[1].exam[2] = store[1].exam[3]

(***************************************************************************)
(* C12.  In remove-question a request with the five metadata fields        *)
(* present and index 0 is never answered "All fields are required": the    *)
(* handler issues the lookup and goes on with what it gives, 404 when no   *)
(* stored exam carries the metadata, otherwise the index check on the      *)
(* first exam that does.  A request without index, or with one of the five *)
(* metadata fields absent or empty, is answered 400 "All fields are        *)
(* required" with the store untouched and no handler left waiting for the  *)
(* store.                                                                  *)
(***************************************************************************)
AllFieldsRequired == Message("All fields are required")

C12_ZeroCallStep ==
  \A req \in RemoveRequests :
    ( /\ MetaPresent(req)
      /\ req.index = Num(0)
      /\ RemoveQuestionCall("c1", req) )
    => /\ pending'["c1"] = Calling("remove", req)
       /\ last' = last
       /\ store' = store

C12_ZeroFindStep ==
  ( /\ Suspended("c1", "remove")
    /\ pending["c1"].req.index = Num(0)
    /\ RemoveQuestionFind("c1") )
  => /\ pending'["c1"].at = "found"
     /\ store' = store
     /\ IF NoSameMeta(store, pending["c1"].req)
          THEN pending'["c1"].result = NoDocument
        ELSE /\ pending'["c1"].result.kind = "doc"
             /\ IsFirstSameMeta(store, pending'["c1"].result.id, pending["c1"].req)

C12_ZeroResumeStep ==
  ( /\ pending["c1"].at = "found"
    /\ pending["c1"].req.index = Num(0)
    /\ RemoveQuestionResume("c1") )
  => /\ store' = store
     /\ last'.body # AllFieldsRequired \/ last' = last
     /\ IF pending["c1"].result.kind = "none"
          THEN Answers("c1", 404)
        ELSE IF Len(pending["c1"].result.doc.exam) = 0
          THEN Answers("c1", 400) /\ last'.body = Message("Invalid question index")
        ELSE /\ pending'["c1"].at = "save"
             /\ pending'["c1"].id = pending["c1"].result.id
             /\ last' = last

C12_AbsentStep ==
  \A req \in RemoveRequests :
    ( /\ RemoveQuestionCall("c1", req)
      /\ (req.index = Undef \/ ~MetaPresent(req)) )
    => /\ last'.op = "remove"
       /\ last'.status = 400
       /\ last'.body = AllFieldsRequired
       /\ UNCHANGED <<store, nextId, pending, answered>>

C12_ZeroIsPresent ==
  [][C12_ZeroCallStep /\ C12_ZeroFindStep /\ C12_ZeroResumeStep /\ C12_AbsentStep]_vars

\* a request was answered 400 "All fields are required", and the next one,
\* with index 0, is on the write-back that empties the one-question exam
C12_Witness ==
  /\ last.op = "remove"
  /\ last.status = 400
  /\ last.body = AllFieldsRequired
  /\ pending["c1"].at = "save"
  /\ MetaPresent(pending["c1"].req)
  /\ pending["c1"].req.index = Num(0)
  /\ Len(pending["c1"].doc.exam) = 0

(***************************************************************************)
(* C13.  When the store rejects the call a handler is suspended on, the    *)
(* handler's next step is one answer from its catch block and never        *)
(* another store call: status 500 with the envelope { message, error } in  *)
(* list, get, delete, add-question and remove-question (for its findOne    *)
(* and for its save alike), status 400 with that envelope in create (of    *)
(* either module) and update, with the message of the route and the error  *)
(* of the store.  The answer leaves the collection, the id generator and   *)
(* the slot of the handler as they were before the request, so that what   *)
(* the service does with later requests is what it would have done without *)
(* the failure.  Whenever the event loop resumes settled handlers, a       *)
(* request whose store call was rejected is answered.                      *)
(***************************************************************************)
StoreFailed(r) == "error" \in DOMAIN r.body /\ r.body.error = StoreError

\* the handler in slot c holds the rejection of its store call
HoldsRejection(c) ==
  /\ pending[c].at \in {"done", "found", "saved"}
  /\ pending[c].result = Rejected(StoreError)

\* the status and the message of the catch block of each route, as the
\* source gives them
FailureStatus ==
  [list |-> 500, get |-> 500, create |-> 400, upload |-> 400, append |-> 500,
   remove |-> 500, update |-> 400, delete |-> 500]

FailureMessage ==
  [list |-> "Failed to retrieve exams", get |-> "Failed to retrieve exam",
   create |-> "Failed to create exam", upload |-> "Failed to create exam",
   append |-> "Failed to add question", remove |-> "Failed to remove question",
   update |-> "Failed to update exam", delete |-> "Failed to delete exam"]

\* a step of the handler that holds a rejection: the answer of its route
C13_CatchStep ==
  (HoldsRejection("c1") /\ pending'["c1"] # pending["c1"])
    => /\ pending'["c1"] = Idle
       /\ last' = Response(pending["c1"].op, FailureStatus[pending["c1"].op],
                           [message |-> FailureMessage[pending["c1"].op],
                            error |-> StoreError])
       /\ store' = store
       /\ nextId' = nextId
       /\ answered' = answered

\* between the rejection and the answer nothing is sent to the store and
\* nothing else is answered
C13_HeldStep ==
  (HoldsRejection("c1") /\ pending'["c1"] = pending["c1"])
    => UNCHANGED <<store, nextId, last, answered>>

\* a handler is suspended on a store call at most once for each call of its
\* route: a step that leaves it suspended on a call starts from Idle, from
\* multer, or from the findOne of remove-question, whose result was a
\* document
C13_NoRetryStep ==
  ( /\ pending'["c1"] # pending["c1"]
    /\ pending'["c1"].at \in {"call", "save"} )
  => \/ pending["c1"] = Idle
     \/ pending["c1"].at = "call" /\ pending["c1"].op = "multer"
     \/ /\ pending["c1"].at = "found"
        /\ pending["c1"].result.kind = "doc"
        /\ pending'["c1"].at = "save"

C13_Answered ==
  HoldsRejection("c1") ~> (pending["c1"] = Idle /\ StoreFailed(last))

C13_FailuresCaught ==
  /\ [][C13_CatchStep /\ C13_HeldStep /\ C13_NoRetryStep]_vars
  /\ C13_Answered

\* after the store rejected a call, a later request that replaces the
\* division of the stored exam was answered 200 and the exam holds it
C13_Witness ==
  /\ answered.failed
  /\ last.op = "update"
  /\ last.status = 200
  /\ pending["c1"] = Idle
  /\ 1 \in DOMAIN store
  /\ store[1].division = Text("B")
  /\ Len(store[1].exam) = 2
====
